---- MODULE Spec2Model ----
(***************************************************************************)
(* A model of rss2pdf (src/rss_to_pdf.py): the command line driver 'main', *)
(* RSSToPDFConverter.fetch_rss_feed, extract_article_content, create_pdf,  *)
(* add_formatted_content_to_story and add_image_to_story.                  *)
(*                                                                         *)
(* Strings are sequences of tokens.  A token is either one significant     *)
(* character ("[", "]", "(", ")", "!", "#", "_", "?", "&", " ", "\n", ...) *)
(* or an atomic run of characters that holds none of them (a word, a       *)
(* passage of prose, a URL stem).  TokLen gives the number of characters a *)
(* token stands for.  Python's None is the empty tuple and a present value *)
(* x is <<x>>.                                                             *)
(***************************************************************************)
EXTENDS Integers, Sequences, FiniteSets, TLC

None == <<>>
Some(x) == <<x>>

NL == "\n"
SP == " "
\* The backtick character.
BT == "backtick"

\* Number of characters of one token.
TokLen(t) ==
    CASE t = "Long600"  -> 600
      [] t = "Long501"  -> 501
      [] t = "Edge500"  -> 500
      [] t = "Short300" -> 300
      [] t = "Tiny10"   -> 10
      [] t = "figure"   -> 6
      [] t = "See"      -> 3
      [] t = "chart"    -> 5
      [] t = "sunset"   -> 6
      [] t = "Heading"  -> 7
      [] t = "Logo"     -> 4
      [] t = "avatar"   -> 6
      [] t = "photo"    -> 5
      [] t = "INTRO"    -> 5
      [] t = "Plain"    -> 5
      [] t = "text"     -> 4
      [] t = "print"    -> 5
      [] t = "python"   -> 6
      [] t = "CODE BLOCK:" -> 11
      [] OTHER          -> 1

RECURSIVE StrLen(_)
\* len(s) of a Python string.
StrLen(s) == IF s = <<>> THEN 0 ELSE TokLen(Head(s)) + StrLen(Tail(s))

RECURSIVE Flatten(_)
\* Concatenation of a sequence of sequences.
Flatten(ss) == IF ss = <<>> THEN <<>> ELSE Head(ss) \o Flatten(Tail(ss))

RECURSIVE Join(_, _)
\* sep.join(parts) for a one-token separator.
Join(parts, sep) ==
    IF parts = <<>> THEN <<>>
    ELSE IF Len(parts) = 1 THEN parts[1]
    ELSE parts[1] \o <<sep>> \o Join(Tail(parts), sep)

IsSpace(t) == t \in {SP, NL, "\t"}

RECURSIVE LStrip(_)
LStrip(s) == IF s # <<>> /\ IsSpace(Head(s)) THEN LStrip(Tail(s)) ELSE s

RECURSIVE RStrip(_)
RStrip(s) ==
    IF s # <<>> /\ IsSpace(s[Len(s)]) THEN RStrip(SubSeq(s, 1, Len(s) - 1)) ELSE s

\* str.strip()
Strip(s) == RStrip(LStrip(s))

\* s.startswith(p)
StartsWith(s, p) == Len(s) >= Len(p) /\ SubSeq(s, 1, Len(p)) = p

\* 'p in s' for strings: p occurs as a contiguous run of s.
Contains(s, p) ==
    \E k \in 0..(Len(s) - Len(p)) : SubSeq(s, k + 1, k + Len(p)) = p

(***************************************************************************)
(* The parsed page (BeautifulSoup tree).  Every node has the same fields;  *)
(* a text node carries 'text', an <img> carries 'src' and 'alt', an <a>    *)
(* carries 'href'.                                                         *)
(***************************************************************************)
Elem(tag, cls, id, kids) ==
    [tag |-> tag, cls |-> cls, id |-> id, kids |-> kids,
     text |-> <<>>, src |-> <<>>, alt |-> <<>>, href |-> <<>>]
TextNode(text) ==
    [tag |-> "#text", cls |-> {}, id |-> "", kids |-> <<>>,
     text |-> text, src |-> <<>>, alt |-> <<>>, href |-> <<>>]
Img(src, alt) ==
    [tag |-> "img", cls |-> {}, id |-> "", kids |-> <<>>,
     text |-> <<>>, src |-> src, alt |-> alt, href |-> <<>>]
Link(href, kids) ==
    [tag |-> "a", cls |-> {}, id |-> "", kids |-> kids,
     text |-> <<>>, src |-> <<>>, alt |-> <<>>, href |-> href]

RECURSIVE NodeAt(_, _)
\* The node a path of child indices leads to.
NodeAt(tree, path) ==
    IF path = <<>> THEN tree ELSE NodeAt(tree.kids[Head(path)], Tail(path))

RECURSIVE ReplaceAt(_, _, _)
\* The tree with the node at 'path' replaced.
ReplaceAt(tree, path, node) ==
    IF path = <<>> THEN node
    ELSE [tree EXCEPT !.kids[Head(path)] = ReplaceAt(@, Tail(path), node)]

\* The selectors of content_selectors, by kind.
TagSel(v) == [k |-> "tag", v |-> v]
ClassSel(v) == [k |-> "class", v |-> v]
IdSel(v) == [k |-> "id", v |-> v]

content_selectors ==
    << TagSel("article"), ClassSel("post-content"), ClassSel("entry-content"),
       ClassSel("content"), ClassSel("post-body"), TagSel("main"),
       ClassSel("main-content"), IdSel("content"), ClassSel("article-content"),
       ClassSel("post"), ClassSel("entry"), ClassSel("blog-post"),
       ClassSel("post-text"), ClassSel("entry-text"), ClassSel("post-body"),
       ClassSel("content-body"), ClassSel("article-body"),
       ClassSel("post-content"), ClassSel("entry-content"),
       ClassSel("blog-entry"), ClassSel("post-entry"), IdSel("primary") >>

\* Whether a CSS selector of the list matches a node.
Matches(node, sel) ==
    CASE sel.k = "tag"   -> node.tag = sel.v
      [] sel.k = "class" -> sel.v \in node.cls
      [] sel.k = "id"    -> node.id = sel.v

RECURSIVE SelectFrom(_, _, _)
\* First descendant of 'node' matching 'sel' in document order, looking at
\* the children from index j on: None or Some(path).
SelectFrom(node, sel, j) ==
    IF j > Len(node.kids) THEN None
    ELSE LET kid == node.kids[j] IN
         IF Matches(kid, sel) THEN Some(<<j>>)
         ELSE LET below == SelectFrom(kid, sel, 1) IN
              IF below # None THEN Some(<<j>> \o below[1])
              ELSE SelectFrom(node, sel, j + 1)

\* soup.select_one(selector)
select_one(soup, sel) == SelectFrom(soup, sel, 1)

\* soup.find('body')
find_body(soup) == SelectFrom(soup, TagSel("body"), 1)

\* A class name in which the pattern
\* sidebar|navigation|menu|nav|ad|advertisement|social|share|comment|footer|header
\* is found (re.search, so anywhere in the name).
ClassPatternFound(c) ==
    c \in {"sidebar", "comments", "share-buttons", "site-header", "nav-links",
           "lead", "ad-slot", "social"}

\* Which nodes one decompose() pass removes.
DecomposeMatch(node, pass) ==
    CASE pass = "script"   -> node.tag \in {"script", "style", "noscript"}
      [] pass = "tags"     -> node.tag \in {"nav", "header", "footer", "aside"}
      [] pass = "class"    -> \E c \in node.cls : ClassPatternFound(c)
      [] pass = "bodytags" -> node.tag \in {"nav", "header", "footer", "aside",
                                            "script", "style"}

RECURSIVE RemoveDescendants(_, _)
\* for elem in node.find_all(<pass>): elem.decompose()
RemoveDescendants(node, pass) ==
    LET kept == SelectSeq(node.kids, LAMBDA k : ~DecomposeMatch(k, pass))
    IN [node EXCEPT !.kids =
            [j \in 1..Len(kept) |-> RemoveDescendants(kept[j], pass)]]

RECURSIVE GetTexts(_)
\* The stripped, non-empty strings of a subtree, in document order.
GetTexts(node) ==
    IF node.tag = "#text"
    THEN (IF Strip(node.text) = <<>> THEN <<>> ELSE <<Strip(node.text)>>)
    ELSE Flatten([j \in 1..Len(node.kids) |-> GetTexts(node.kids[j])])

\* node.get_text(separator='\n', strip=True)
get_text(node) == Join(GetTexts(node), NL)

RECURSIVE FindImgs(_)
\* node.find_all('img')
FindImgs(node) ==
    IF node.tag = "img" THEN <<node>>
    ELSE Flatten([j \in 1..Len(node.kids) |-> FindImgs(node.kids[j])])

(***************************************************************************)
(* Regular expressions of the source, over token strings.  Sub is          *)
(* re.sub: the leftmost match, then on from its end, no match overlapping. *)
(***************************************************************************)
RECURSIVE RunLen(_, _, _)
\* How many tokens from index k on lie in 'set' (a greedy character class).
RunLen(s, k, set) ==
    IF k <= Len(s) /\ s[k] \in set THEN 1 + RunLen(s, k + 1, set) ELSE 0

RECURSIVE FindTok(_, _, _)
\* Least index >= k holding a token of 'set', 0 if there is none.
FindTok(s, k, set) ==
    IF k > Len(s) THEN 0
    ELSE IF s[k] \in set THEN k ELSE FindTok(s, k + 1, set)

\* Whether the delimiter d (a token string) stands at index k.
DelimAt(s, k, d) == k >= 1 /\ k + Len(d) - 1 <= Len(s) /\ SubSeq(s, k, k + Len(d) - 1) = d

RECURSIVE FindClose(_, _, _, _)
\* Least index >= k where d stands, the tokens before it from k on being
\* in the class the pattern allows: any but newline for '.', any for DOTALL.
FindClose(s, k, d, dotall) ==
    IF k > Len(s) THEN 0
    ELSE IF DelimAt(s, k, d) THEN k
    ELSE IF ~dotall /\ s[k] = NL THEN 0
    ELSE FindClose(s, k + 1, d, dotall)

RECURSIVE LastNLInRun(_, _)
\* In the whitespace run starting at k, the index of its last newline (0 if none).
LastNLInRun(s, k) ==
    IF k > Len(s) \/ ~IsSpace(s[k]) THEN 0
    ELSE LET later == LastNLInRun(s, k + 1) IN
         IF later > 0 THEN later ELSE IF s[k] = NL THEN k ELSE 0

Whitespace == {SP, NL, "\t"}
\* \d+ tokens and \w+ tokens of the vocabulary.
IsDigits(t) == t \in {"1", "2", "3", "36", "100", "200", "1456"}
IsWordTok(t) == IsDigits(t) \/ t \in {"python", "js", "print", "x", "code"}
\* A token w=<digits> / h=<digits>.
IsWParam(t) == t \in {"w=100", "w=200", "w=1"}
IsHParam(t) == t \in {"h=50", "h=1"}

\* One-character tokens outside \w, \s and . , ! ? - ( )
Symbols == {"&", "<", ">", "\"", "'", "#", "*", "[", "]", ":", "/", ";", "=", BT}

\* ^ under re.MULTILINE
LineStart(s, k) == k = 1 \/ s[k - 1] = NL

Delim(rx) ==
    CASE rx = "bold" -> <<"*", "*">>
      [] rx = "italic" -> <<"*">>
      [] rx = "underline" -> <<"_">>
      [] rx = "code" -> <<BT>>
      [] rx = "fence" -> <<BT, BT, BT>>

\* The length in tokens of the match of pattern rx starting at index k; 0 if
\* it does not match there.
MatchLen(s, k, rx) ==
    CASE rx \in {"bold", "italic", "underline", "code"} ->
            \* \*\*(.*?)\*\*   \*(.*?)\*   _(.*?)_   <backtick>(.*?)<backtick>
            LET d == Delim(rx)
                j == IF DelimAt(s, k, d) THEN FindClose(s, k + Len(d), d, FALSE) ELSE 0
            IN IF j > 0 THEN j + Len(d) - k ELSE 0
      [] rx = "link" ->
            \* \[([^\]]*)\]\([^)]*\)
            LET j == IF s[k] = "[" THEN FindTok(s, k + 1, {"]"}) ELSE 0
                m == IF j > 0 /\ j < Len(s) /\ s[j + 1] = "("
                     THEN FindTok(s, j + 2, {")"}) ELSE 0
            IN IF m > 0 THEN m + 1 - k ELSE 0
      [] rx = "bullet" ->
            \* ^[-*<U+2022>]\s*
            IF LineStart(s, k) /\ s[k] \in {"-", "*", "U+2022"}
            THEN 1 + RunLen(s, k + 1, Whitespace) ELSE 0
      [] rx = "numbered" ->
            \* ^\d+\.\s*
            IF LineStart(s, k) /\ IsDigits(s[k]) /\ k < Len(s) /\ s[k + 1] = "."
            THEN 2 + RunLen(s, k + 2, Whitespace) ELSE 0
      [] rx = "quote" ->
            \* ^>\s*
            IF LineStart(s, k) /\ s[k] = ">"
            THEN 1 + RunLen(s, k + 1, Whitespace) ELSE 0
      [] rx = "fence" ->
            \* <3 backticks>(\w+)?\n(.*?)<3 backticks>   (re.DOTALL)
            LET d == Delim(rx)
                a == k + 3
                b == IF a <= Len(s) /\ IsWordTok(s[a]) THEN a + 1 ELSE a
                j == IF DelimAt(s, k, d) /\ b <= Len(s) /\ s[b] = NL
                     THEN FindClose(s, b + 1, d, TRUE) ELSE 0
                \* without the optional tag
                j0 == IF DelimAt(s, k, d) /\ a <= Len(s) /\ s[a] = NL
                      THEN FindClose(s, a + 1, d, TRUE) ELSE 0
            IN IF j > 0 THEN j + 3 - k ELSE IF j0 > 0 THEN j0 + 3 - k ELSE 0
      [] rx = "excl_isolated" ->
            \* \s+!+\s+
            LET w1 == RunLen(s, k, Whitespace)
                e == RunLen(s, k + w1, {"!"})
                w2 == RunLen(s, k + w1 + e, Whitespace)
            IN IF w1 > 0 /\ e > 0 /\ w2 > 0 THEN w1 + e + w2 ELSE 0
      [] rx = "excl_multi" ->
            \* !{2,}
            LET e == RunLen(s, k, {"!"}) IN IF e >= 2 THEN e ELSE 0
      [] rx = "blank_lines" ->
            \* \n\s*\n
            LET last == IF s[k] = NL THEN LastNLInRun(s, k + 1) ELSE 0
            IN IF last > 0 THEN last + 1 - k ELSE 0
      [] rx = "spaces" ->
            \* [ \t]+
            RunLen(s, k, {SP, "\t"})
      [] rx = "bullet1" ->
            \* ^[-*<U+2022>]\s*   (without re.MULTILINE)
            IF k = 1 /\ s[k] \in {"-", "*", "U+2022"}
            THEN 1 + RunLen(s, k + 1, Whitespace) ELSE 0
      [] rx = "numbered1" ->
            \* ^\d+\.\s*   (without re.MULTILINE)
            IF k = 1 /\ IsDigits(s[k]) /\ k < Len(s) /\ s[k + 1] = "."
            THEN 2 + RunLen(s, k + 2, Whitespace) ELSE 0
      [] rx = "w" ->
            \* [?&]w=\d+
            IF s[k] \in {"?", "&"} /\ k < Len(s) /\ IsWParam(s[k + 1]) THEN 2 ELSE 0
      [] rx = "h" ->
            \* [?&]h=\d+
            IF s[k] \in {"?", "&"} /\ k < Len(s) /\ IsHParam(s[k + 1]) THEN 2 ELSE 0
      [] rx = "c_limit" ->
            \* [?&]c_limit
            IF s[k] \in {"?", "&"} /\ DelimAt(s, k + 1, <<"c", "_", "limit">>) THEN 4 ELSE 0
      [] rx = "c_fill" ->
            \* [?&]c_fill
            IF s[k] \in {"?", "&"} /\ DelimAt(s, k + 1, <<"c", "_", "fill">>) THEN 4 ELSE 0
      [] rx = "symbols_isolated" ->
            \* \s+[^\w\s\.\,\!\?\-\(\)]+\s+
            LET w1 == RunLen(s, k, Whitespace)
                e == RunLen(s, k + w1, Symbols)
                w2 == RunLen(s, k + w1 + e, Whitespace)
            IN IF w1 > 0 /\ e > 0 /\ w2 > 0 THEN w1 + e + w2 ELSE 0
      [] rx = "whitespace" ->
            \* \s+
            RunLen(s, k, Whitespace)

\* What the match of rx at k, of L tokens, is replaced by.
Repl(s, k, L, rx) ==
    CASE rx \in {"bold", "italic", "underline", "code"} ->
            SubSeq(s, k + Len(Delim(rx)), k + L - Len(Delim(rx)) - 1)
      [] rx = "link" -> SubSeq(s, k + 1, FindTok(s, k + 1, {"]"}) - 1)
      [] rx = "fence" ->
            LET a == k + 3
                b == IF a <= Len(s) /\ IsWordTok(s[a]) /\ a < Len(s) /\ s[a + 1] = NL
                        /\ FindClose(s, a + 2, Delim(rx), TRUE) > 0
                     THEN a + 1 ELSE a
            IN <<"CODE BLOCK:", NL>> \o SubSeq(s, b + 1, k + L - 4)
      [] rx = "excl_isolated" -> <<SP>>
      [] rx = "excl_multi" -> <<"!">>
      [] rx = "blank_lines" -> <<NL, NL>>
      [] rx = "spaces" -> <<SP>>
      [] rx = "symbols_isolated" -> <<SP>>
      [] rx = "whitespace" -> <<SP>>
      [] OTHER -> <<>>

RECURSIVE SubFrom(_, _, _)
SubFrom(s, k, rx) ==
    IF k > Len(s) THEN <<>>
    ELSE LET L == MatchLen(s, k, rx) IN
         IF L > 0 THEN Repl(s, k, L, rx) \o SubFrom(s, k + L, rx)
         ELSE <<s[k]>> \o SubFrom(s, k + 1, rx)

\* re.sub(rx, replacement, s)
Sub(s, rx) == SubFrom(s, 1, rx)

(***************************************************************************)
(* Image classification and the deduplication key.                         *)
(***************************************************************************)
\* str.lower() of one token.
LowerTok(t) ==
    CASE t = "Logo" -> "logo"
      [] t = "Sunset" -> "sunset"
      [] t = "Figure" -> "figure"
      [] t = "See" -> "see"
      [] OTHER -> t

\* str.lower()
Lower(s) == [j \in 1..Len(s) |-> LowerTok(s[j])]

skip_patterns ==
    { <<"avatar">>, <<"profile">>, <<"user">>, <<"author">>, <<"writer">>,
      <<"contributor">>, <<"icon">>, <<"logo">>, <<"button">>, <<"badge">>,
      <<"emoji">>, <<"social">>, <<"thumb">>, <<"thumbnail">>, <<"small">>,
      <<"tiny">>, <<"mini">>, <<"36x36">>, <<"48x48">>, <<"64x64">>,
      <<"128x128">>, <<"w", "_", "36">>, <<"w", "_", "48">>, <<"w", "_", "64">>,
      <<"h", "_", "36">>, <<"h", "_", "48">>, <<"h", "_", "64">>,
      <<"substack.com/@">>,
      <<"bucketeer-e05bbc84-baa3-437e-9518-adb32be77984.s3.amazonaws.com">> }

small_sizes ==
    { <<"w", "_", "36">>, <<"w", "_", "48">>, <<"w", "_", "64">>,
      <<"h", "_", "36">>, <<"h", "_", "48">>, <<"h", "_", "64">> }

large_sizes ==
    { <<"w", "_", "520">>, <<"w", "_", "1456">>, <<"w", "_", "1024">>,
      <<"w", "_", "800">>, <<"h", "_", "272">>, <<"h", "_", "1369">>,
      <<"h", "_", "1100">> }

\* A classifier that looks at the alt text and the large sizes before the
\* decorative patterns.
AltBeforePatterns(src, alt) ==
    IF alt # <<>> /\ StrLen(alt) > 3 THEN TRUE
    ELSE IF \E size \in large_sizes : Contains(src, size) THEN TRUE
    ELSE ~(\E p \in skip_patterns : Contains(Lower(src), p) \/ Contains(Lower(alt), p))

\* is_content_image(src, alt)
is_content_image(src, alt) ==
    LET src_lower == Lower(src)
        alt_lower == Lower(alt)
    IN IF \E p \in skip_patterns : Contains(src_lower, p) \/ Contains(alt_lower, p)
       THEN FALSE
       ELSE IF \E size \in small_sizes : Contains(src, size) THEN FALSE
       ELSE IF Contains(src, <<"substack.com/@">>)
               \/ Contains(src, <<"bucketeer-e05bbc84-baa3-437e-9518-adb32be77984.s3.amazonaws.com">>)
       THEN FALSE
       ELSE IF alt # <<>> /\ StrLen(alt) > 3 THEN TRUE
       ELSE IF \E size \in large_sizes : Contains(src, size) THEN TRUE
       ELSE TRUE

\* 'substackcdn.com' in url
OnSubstackCdn(url) == \E j \in 1..Len(url) : url[j] = "https://substackcdn.com/image/fetch/"

\* Tokens that are runs of [a-f0-9-], and those of 20 characters or more.
IsHexRun(t) == t \in {"ab12", "cd34", "ab12ab12-ab12-ab12-ab12"}
IsLongHexRun(t) == t \in {"ab12ab12-ab12-ab12-ab12"}
\* Tokens \d+x\d+ and the extensions the pattern lists.
IsDimensions(t) == t \in {"10x10", "20x20"}
IsImageExt(t) == t \in {".png", ".jpg", ".jpeg"}

\* Least index k at which ([a-f0-9-]+)_(\d+x\d+)\.(png|jpg|jpeg) matches, the
\* identifier being the token at k; 0 if re.search finds nothing.
ImageIdAt(url) ==
    LET hits == {k \in 1..(Len(url) - 3) :
                    /\ IsHexRun(url[k]) /\ url[k + 1] = "_"
                    /\ IsDimensions(url[k + 2]) /\ IsImageExt(url[k + 3])}
    IN IF hits = {} THEN 0 ELSE CHOOSE k \in hits : \A m \in hits : k <= m

\* extract_base_image_url(url)
extract_base_image_url(url) ==
    IF url = <<>> THEN <<>>
    ELSE LET k == ImageIdAt(url)
             u == FindTok(url, 1, {t \in {url[j] : j \in 1..Len(url)} : IsLongHexRun(t)})
         IN IF OnSubstackCdn(url) /\ k > 0 THEN <<"image_id_", url[k]>>
            ELSE IF OnSubstackCdn(url) /\ u > 0 THEN <<"unique_", url[u]>>
            ELSE Sub(Sub(Sub(Sub(url, "w"), "h"), "c_limit"), "c_fill")

(***************************************************************************)
(* html2text (self.h2t.handle) with the options of __init__: images and    *)
(* links kept, no wrapping.  One block per text node, image or link.       *)
(***************************************************************************)
RECURSIVE InlineMarkdown(_)
InlineMarkdown(node) ==
    CASE node.tag = "#text" -> node.text
      [] node.tag = "img" -> <<"!", "[">> \o node.alt \o <<"]", "(">> \o node.src \o <<")">>
      [] node.tag = "a" ->
            <<"[">> \o Flatten([j \in 1..Len(node.kids) |-> InlineMarkdown(node.kids[j])])
                \o <<"]", "(">> \o node.href \o <<")">>
      [] OTHER -> Flatten([j \in 1..Len(node.kids) |-> InlineMarkdown(node.kids[j])])

RECURSIVE BlockMarkdown(_)
BlockMarkdown(node) ==
    CASE node.tag \in {"#text", "img", "a"} -> InlineMarkdown(node) \o <<NL, NL>>
      [] node.tag = "h2" -> <<"#", "#", SP>> \o InlineMarkdown(node) \o <<NL, NL>>
      [] OTHER -> Flatten([j \in 1..Len(node.kids) |-> BlockMarkdown(node.kids[j])])

\* self.h2t.handle(str(content_elem))
HtmlToMarkdown(node) == BlockMarkdown(node)

\* self.h2t.handle(content) for a string without markup: one paragraph,
\* its line breaks collapsed to spaces.
TextToMarkdown(text) ==
    IF Strip(text) = <<>> THEN <<NL>>
    ELSE [j \in 1..Len(Strip(text)) |->
             IF Strip(text)[j] = NL THEN SP ELSE Strip(text)[j]] \o <<NL, NL>>

\* Characters outside [\x20-\x7E\n\t].
NonPrintable == {"U+2022", "U+00E9", "\r"}

\* clean_markdown_content(markdown_content)
clean_markdown_content(markdown_content) ==
    IF markdown_content = <<>> THEN <<>>
    ELSE LET c1 == Sub(markdown_content, "bold")
             c2 == Sub(c1, "italic")
             c3 == Sub(c2, "underline")
             c4 == Sub(c3, "code")
             c5 == Sub(c4, "link")
             c6 == Sub(c5, "bullet")
             c7 == Sub(c6, "numbered")
             c8 == Sub(c7, "quote")
             c9 == Sub(c8, "fence")
             \* the escape replacements and the removal of what backslashes
             \* are left delete every backslash
             c10 == SelectSeq(c9, LAMBDA t : t # "\\")
             c11 == SelectSeq(c10, LAMBDA t : t \notin NonPrintable)
             c12 == Sub(c11, "excl_isolated")
             c13 == Sub(c12, "excl_multi")
             c14 == Sub(c13, "blank_lines")
             c15 == Sub(c14, "spaces")
         IN Strip(c15)

RECURSIVE SplitFrom(_, _, _)
\* s.split(sep) for the separator "\n\n", from index k with cur collected.
SplitFrom(s, k, cur) ==
    IF k > Len(s) THEN <<cur>>
    ELSE IF k < Len(s) /\ s[k] = NL /\ s[k + 1] = NL
         THEN <<cur>> \o SplitFrom(s, k + 2, <<>>)
         ELSE SplitFrom(s, k + 1, Append(cur, s[k]))

\* The length under which structure_content drops a paragraph.
ParagraphMin == 20

\* structure_content(content)
structure_content(content) ==
    IF content = <<>> THEN <<>>
    ELSE LET paragraphs == SplitFrom(content, 1, <<>>)
             stripped == [j \in 1..Len(paragraphs) |-> Strip(paragraphs[j])]
             kept == SelectSeq(stripped, LAMBDA q : q # <<>> /\ StrLen(q) > ParagraphMin)
         IN Flatten([j \in 1..Len(kept) |->
                        IF j = 1 THEN kept[j] ELSE <<NL, NL>> \o kept[j]])

(***************************************************************************)
(* extract_article_content.  x holds its locals: the parsed page soup,   *)
(* content (None or Some(string)), used_selector, content_elem (None *)
(* or Some(path of the element in soup)) and whether the loop has left by  *)
(* break.                                                                *)
(***************************************************************************)
\* The text length a selector's element must exceed.
ContentThreshold == 500

\* The locals after the page is parsed and its scripts are removed.
ExtractLocals(page) ==
    [soup |-> RemoveDescendants(page, "script"), content |-> None,
     used_selector |-> None, content_elem |-> None, broke |-> FALSE]

\* A faulty iteration: the loop goes on after a selector passed the threshold.
SelectorStepNoBreak(x, selector) ==
    LET found == select_one(x.soup, selector) IN
    IF found = None THEN [x EXCEPT !.content_elem = None]
    ELSE LET elem == RemoveDescendants(
                         RemoveDescendants(NodeAt(x.soup, found[1]), "tags"), "class")
             text == get_text(elem)
         IN [x EXCEPT !.soup = ReplaceAt(x.soup, found[1], elem),
                      !.content_elem = found,
                      !.content = Some(text),
                      !.used_selector = IF StrLen(text) > ContentThreshold
                                        THEN Some(selector) ELSE @]

\* One iteration of 'for selector in content_selectors'.
SelectorStep(x, selector) ==
    LET found == select_one(x.soup, selector) IN
    IF found = None THEN [x EXCEPT !.content_elem = None]
    ELSE LET elem == RemoveDescendants(
                         RemoveDescendants(NodeAt(x.soup, found[1]), "tags"), "class")
             text == get_text(elem)
         IN [x EXCEPT !.soup = ReplaceAt(x.soup, found[1], elem),
                      !.content_elem = found,
                      !.content = Some(text),
                      !.used_selector = IF StrLen(text) > ContentThreshold
                                        THEN Some(selector) ELSE @,
                      !.broke = StrLen(text) > ContentThreshold]

RECURSIVE SelectorLoop(_, _)
\* The loop from its i-th selector on.
SelectorLoop(x, i) ==
    IF i > Len(content_selectors) \/ x.broke THEN x
    ELSE SelectorLoop(SelectorStep(x, content_selectors[i]), i + 1)

\* Python truth of an optional string.
Truthy(opt) == opt # None /\ opt[1] # <<>>

\* 'if not content: body = soup.find("body") ...'
BodyFallback(x) ==
    IF Truthy(x.content) THEN x
    ELSE LET body == find_body(x.soup) IN
         IF body = None THEN x
         ELSE LET elem == RemoveDescendants(NodeAt(x.soup, body[1]), "bodytags")
              IN [x EXCEPT !.soup = ReplaceAt(x.soup, body[1], elem),
                           !.content = Some(get_text(elem)),
                           !.used_selector = Some(TagSel("body")),
                           !.content_elem = body]

\* src.startswith('http')
StartsWithHttp(src) ==
    src # <<>> /\ src[1] \in {"http://img.example/", "https://img.example/",
                              "https://substackcdn.com/image/fetch/"}

RECURSIVE CollectImages(_, _, _)
\* The loop 'for img in images' from its k-th image on: the (src, alt)
\* pairs appended to current_article_images.
CollectImages(images, k, seen_urls) ==
    IF k > Len(images) THEN <<>>
    ELSE LET src == images[k].src
             alt == images[k].alt
             base_url == extract_base_image_url(src)
         IN IF src # <<>> /\ StartsWithHttp(src) /\ is_content_image(src, alt)
               /\ base_url \notin seen_urls
            THEN <<[src |-> src, alt |-> alt]>>
                     \o CollectImages(images, k + 1, seen_urls \cup {base_url})
            ELSE CollectImages(images, k + 1, seen_urls)

\* The images stored for the article when content was found.
StoredImages(x) ==
    IF x.content_elem = None THEN <<>>
    ELSE CollectImages(FindImgs(NodeAt(x.soup, x.content_elem[1])), 1, {})

\* The markdown handed to clean_markdown_content.
MarkdownOf(x) ==
    IF x.content_elem # None
    THEN HtmlToMarkdown(NodeAt(x.soup, x.content_elem[1]))
    ELSE TextToMarkdown(structure_content(x.content[1]))

\* What extract_article_content returns: None, or Some(cleaned text).
ExtractReturn(x) ==
    IF Truthy(x.content) THEN Some(clean_markdown_content(MarkdownOf(x))) ELSE None

\* extract_article_content on a fetched page, start to end.
extract_article_content(page) ==
    BodyFallback(SelectorLoop(ExtractLocals(page), 1))

(***************************************************************************)
(* The story: the list of reportlab flowables create_pdf builds.  The text *)
(* of a Paragraph is taken to be markup its constructor accepts.           *)
(***************************************************************************)
Paragraph(text, style) == [k |-> "Paragraph", text |-> text, style |-> style, w |-> 0, h |-> 0]
Spacer(w, h) == [k |-> "Spacer", text |-> <<>>, style |-> "", w |-> w, h |-> h]
PageBreak == [k |-> "PageBreak", text |-> <<>>, style |-> "", w |-> 0, h |-> 0]
\* The Image flowable made from the bytes downloaded for image_url.
Image(image_url, w, h) == [k |-> "Image", text |-> image_url, style |-> "", w |-> w, h |-> h]

(***************************************************************************)
(* add_image_to_story.  What the network and PIL answer is an input: a     *)
(* download result is [ok, w, h], ok = FALSE for a failed request or an    *)
(* undecodable body, else the pixel size of the decoded image.             *)
(***************************************************************************)
page_width == 400
MinImageHeight == 50

CdnPrefix == "https://substackcdn.com/image/fetch/"
S3Prefix == "https://substack-post-media.s3.amazonaws.com/public/images/"

\* Tokens that begin with https://
IsHttpsStem(t) == t \in {"https://img.example/", CdnPrefix, S3Prefix}
\* 's3.amazonaws.com' in url
OnS3(url) == \E j \in 1..Len(url) : url[j] = S3Prefix

\* The URL built from an image id and its dimensions, with the size
\* preset given ("w_1456,c_limit", "w_520,h_272,c_fill", "w_800,c_limit").
CdnUrlFor(preset, image_id, dimensions) ==
    <<CdnPrefix>> \o preset
        \o <<",", "f", "_", "auto", ",", "q", "_", "auto", ":good,fl", "_", "progressive:steep">>
        \o <<"/", S3Prefix, image_id, "_", dimensions, ".png">>

Preset1456 == <<"w", "_", "1456", ",", "c", "_", "limit">>
Preset520 == <<"w", "_", "520", ",", "h", "_", "272", ",", "c", "_", "fill">>
Preset800 == <<"w", "_", "800", ",", "c", "_", "limit">>

\* re.search(r'https://substackcdn\.com/image/fetch/[^/]+/(https://[^)]+)', url):
\* None, or Some(group 1).
FetchInnerUrl(url) ==
    LET starts == {k \in 1..Len(url) :
                      /\ url[k] = CdnPrefix
                      /\ LET slash == FindTok(url, k + 1, {"/"}) IN
                           /\ slash > k + 1
                           /\ \A j \in (k + 1)..(slash - 1) : ~IsHttpsStem(url[j])
                           /\ slash < Len(url) /\ IsHttpsStem(url[slash + 1])}
    IN IF starts = {} THEN None
       ELSE LET k == CHOOSE a \in starts : \A b \in starts : a <= b
                from == FindTok(url, k + 1, {"/"}) + 1
                close == FindTok(url, from, {")"})
            IN Some(SubSeq(url, from, IF close = 0 THEN Len(url) ELSE close - 1))

RECURSIVE ReplaceAll(_, _, _)
\* str.replace(old, new)
ReplaceAll(s, old, new) ==
    IF s = <<>> THEN <<>>
    ELSE IF StartsWith(s, old) THEN new \o ReplaceAll(SubSeq(s, Len(old) + 1, Len(s)), old, new)
    ELSE <<Head(s)>> \o ReplaceAll(Tail(s), old, new)

\* The URL add_image_to_story downloads for image_url.
CleanImageUrl(image_url) ==
    IF ~OnSubstackCdn(image_url) THEN image_url
    ELSE LET m1 == FetchInnerUrl(image_url)
             repaired == ReplaceAll(ReplaceAll(ReplaceAll(image_url,
                             <<"$s", "!">>, <<"$s", "_", "!">>),
                             <<"f", "auto">>, <<"f", "_", "auto">>),
                             <<"q", "auto">>, <<"q", "_", "auto">>)
             m2 == FetchInnerUrl(repaired)
             k == ImageIdAt(image_url)
         IN IF m1 # None THEN m1[1]
            ELSE IF m2 # None THEN m2[1]
            ELSE IF k > 0 THEN CdnUrlFor(Preset1456, image_url[k], image_url[k + 2])
            ELSE image_url

\* The size computed for a decoded image of w x h pixels: [ok, w, h], ok =
\* FALSE when the computation raises ZeroDivisionError.  int() of the
\* scaled values is taken as the floor of the exact quotient.
ImageSize(w, h) ==
    LET new_width == IF w > page_width THEN page_width ELSE w
        new_height == IF w > page_width THEN (h * page_width) \div w ELSE h
    IN IF new_height >= MinImageHeight THEN [ok |-> TRUE, w |-> new_width, h |-> new_height]
       ELSE IF new_height = 0 THEN [ok |-> FALSE, w |-> 0, h |-> 0]
       ELSE [ok |-> TRUE, w |-> (new_width * MinImageHeight) \div new_height,
             h |-> MinImageHeight]

\* The three blocks of a downloaded image.
ImageBlocks(image_url, size) ==
    <<Spacer(1, 16), Image(image_url, size.w, size.h), Spacer(1, 16)>>

ImagePlaceholder(alt_text) ==
    Paragraph(<<"[Image: ">> \o (IF alt_text # <<>> THEN alt_text ELSE <<"Article image">>)
                  \o <<" - Failed to load]">>, "image")

\* Whether the except branch goes through alt_urls for the URL downloaded.
TriesAlternates(url) == OnSubstackCdn(url) /\ ~OnS3(url) /\ ImageIdAt(url) > 0

\* A download that gave an image whose size could be computed.
Usable(result) == result.ok /\ ImageSize(result.w, result.h).ok

\* add_image_to_story(image_url, alt_text, story): the blocks it appends,
\* first being the result of the first download and alts those of alt_urls.
add_image_to_story(image_url, alt_text, first, alts) ==
    LET url == CleanImageUrl(image_url)
        good == {j \in 1..Len(alts) : Usable(alts[j])}
    IN IF Usable(first) THEN ImageBlocks(image_url, ImageSize(first.w, first.h))
       ELSE IF TriesAlternates(url) /\ good # {}
       THEN LET j == CHOOSE a \in good : \A b \in good : a <= b
            IN ImageBlocks(image_url, ImageSize(alts[j].w, alts[j].h))
       ELSE <<ImagePlaceholder(alt_text)>>

(***************************************************************************)
(* add_formatted_content_to_story and the line tests it uses.              *)
(***************************************************************************)
\* Tokens made of the letters A-Z and a-z only, and those that begin with
\* an upper-case letter.
IsLetters(t) ==
    t \in {"See", "figure", "Figure", "Heading", "sunset", "Sunset", "chart",
           "Q", "q", "INTRO", "x", "print", "python", "code", "js", "Plain", "text"}
BeginsUpper(t) == t \in {"See", "Figure", "Heading", "Sunset", "Q", "INTRO", "Plain"}
\* Tokens whose cased characters are all upper case (at least one), and
\* tokens without cased characters.
AllUpper(t) == t \in {"Q", "INTRO", "CODE BLOCK:"}
Uncased(t) ==
    IsSpace(t) \/ IsDigits(t)
    \/ t \in {"!", "[", "]", "(", ")", "#", ">", "-", "*", "_", ".", ":", "?", "&", ",",
              "/", "\\", "$", BT}

\* str.isupper()
IsUpper(s) ==
    /\ \E j \in 1..Len(s) : AllUpper(s[j])
    /\ \A j \in 1..Len(s) : AllUpper(s[j]) \/ Uncased(s[j])

\* re.match of ^[A-Z][A-Za-z\s]+<last>$ for last in ':', '?', '.'
TitleShape(s) ==
    /\ Len(s) >= 2
    /\ s[Len(s)] \in {":", "?", "."}
    /\ BeginsUpper(s[1]) /\ IsLetters(s[1])
    /\ \A j \in 2..(Len(s) - 1) : IsLetters(s[j]) \/ IsSpace(s[j])
    /\ (Len(s) >= 3 \/ TokLen(s[1]) >= 2)

\* The number of leading '#' of a line.
HashCount(line) == RunLen(line, 1, {"#"})

\* is_heading(line)
is_heading(raw) ==
    LET line == Strip(raw)
        hashes == HashCount(line)
    IN \/ (hashes >= 1 /\ hashes <= 6 /\ hashes < Len(line) /\ IsSpace(line[hashes + 1]))
       \/ (Len(line) >= 2 /\ LowerTok(line[1]) = "q" /\ line[2] = ":")
       \/ (IsUpper(line) /\ StrLen(line) > 3 /\ StrLen(line) < 100)
       \/ TitleShape(line)

\* is_list_item(line)
is_list_item(line) ==
    LET clean_line == SelectSeq(line, LAMBDA t : t # "\\") IN
    \/ StartsWith(clean_line, <<"-", SP>>)
    \/ StartsWith(clean_line, <<"*", SP>>)
    \/ StartsWith(clean_line, <<"U+2022", SP>>)
    \/ (Len(clean_line) >= 2 /\ IsDigits(clean_line[1]) /\ clean_line[2] = ".")

\* A heading style chosen with level 1 in the subtitle tier.
HeadingLevelOneSubtitle(line) ==
    LET stripped == Strip(line)
        heading_level == IF StartsWith(stripped, <<"#">>) THEN HashCount(stripped) ELSE 0
        clean_line == Strip(SubSeq(stripped, heading_level + 1, Len(stripped)))
        style == IF heading_level >= 3 THEN "section" ELSE "subtitle"
    IN IF clean_line # <<>> THEN <<Paragraph(clean_line, style), Spacer(1, 8)>> ELSE <<>>

\* add_heading_to_story(line, story): the blocks appended.
add_heading_to_story(line) ==
    LET stripped == Strip(line)
        heading_level == IF StartsWith(stripped, <<"#">>) THEN HashCount(stripped) ELSE 0
        clean_line == Strip(IF StartsWith(stripped, <<"#">>)
                            THEN SubSeq(stripped, heading_level + 1, Len(stripped))
                            ELSE stripped)
        style == IF heading_level >= 3 \/ StartsWith(line, <<"#", "#", "#">>) THEN "section"
                 ELSE IF heading_level >= 2 \/ StartsWith(line, <<"#", "#">>) THEN "subtitle"
                 ELSE "section"
    IN IF clean_line # <<>> THEN <<Paragraph(clean_line, style), Spacer(1, 8)>> ELSE <<>>

\* add_quote_to_story(line, story): of its three substitutions only the
\* last, made on line again, reaches clean_line.
add_quote_to_story(line) ==
    LET cut == IF Len(line) >= 1 /\ line[Len(line)] \in {"\"", "'"}
               THEN RStrip(SubSeq(line, 1, Len(line) - 1)) ELSE line
        clean_line == Strip(cut)
    IN IF clean_line # <<>> THEN <<Paragraph(clean_line, "quote"), Spacer(1, 8)>> ELSE <<>>

\* add_list_item_to_story(line, story)
add_list_item_to_story(line) ==
    LET no_escapes == SelectSeq(line, LAMBDA t : t # "\\")
        clean_line == Strip(Sub(Sub(no_escapes, "bullet1"), "numbered1"))
    IN IF clean_line # <<>> THEN <<Paragraph(<<"U+2022", SP>> \o clean_line, "list")>> ELSE <<>>

\* add_code_block_to_story(lines, story)
add_code_block_to_story(lines) ==
    IF lines = <<>> THEN <<>>
    ELSE <<Paragraph(<<"<b>Code Block:</b><br/>">> \o Join(lines, NL), "code")>>

\* Whether a line holds one of the words image, figure, chart, graph.
MentionsImageWord(line) ==
    \E j \in 1..Len(line) :
        LowerTok(line[j]) \in {"image", "figure", "chart", "graph", CdnPrefix}

\* The test of the stored-image branch on line, image_index images of
\* current_article_images (None when the attribute is not set) being placed.
StoredImageDue(line, images, image_index) ==
    /\ images # None /\ images[1] # <<>> /\ image_index < Len(images[1])
    /\ \/ \E j \in 1..Len(images[1]) :
              images[1][j].alt # <<>> /\ Contains(Lower(line), Lower(images[1][j].alt))
       \/ MentionsImageWord(line)

\* re.match(r'!\[([^\]]*)\]\(([^)]*)\)', line): None or Some([alt, url]).
MarkdownImage(line) ==
    LET close == IF StartsWith(line, <<"!", "[">>) THEN FindTok(line, 3, {"]"}) ELSE 0
        paren == IF close > 0 /\ close < Len(line) /\ line[close + 1] = "("
                 THEN FindTok(line, close + 2, {")"}) ELSE 0
    IN IF paren > 0
       THEN Some([alt |-> SubSeq(line, 3, close - 1), url |-> SubSeq(line, close + 2, paren - 1)])
       ELSE None

\* The URL the markdown branch hands to add_image_to_story.
FixCorruptedUrl(image_url) ==
    IF OnSubstackCdn(image_url) /\ Contains(image_url, <<"$s", "!">>) /\ ImageIdAt(image_url) > 0
    THEN CdnUrlFor(Preset1456, image_url[ImageIdAt(image_url)], image_url[ImageIdAt(image_url) + 2])
    ELSE image_url

\* A loop body that looks for a quote before it looks for a heading.
LineBranchQuoteFirst(line, current_code_block, images, image_index) ==
    IF line = <<>> THEN "blank"
    ELSE IF StartsWith(line, <<"CODE BLOCK:">>) THEN "marker"
    ELSE IF current_code_block # <<>> THEN "codebody"
    ELSE IF StartsWith(line, <<">">>) THEN "quote"
    ELSE IF is_heading(line) THEN "heading"
    ELSE IF is_list_item(line) THEN "list"
    ELSE IF StoredImageDue(line, images, image_index) THEN "stored_image"
    ELSE IF StartsWith(line, <<"!", "[">>) /\ Contains(line, <<"]", "(">>)
         THEN (IF MarkdownImage(line) # None THEN "md_image" ELSE "md_unparsed")
    ELSE "paragraph"

\* Which branch of the loop body a stripped line takes.
LineBranch(line, current_code_block, images, image_index) ==
    IF line = <<>> THEN "blank"
    ELSE IF StartsWith(line, <<"CODE BLOCK:">>) THEN "marker"
    ELSE IF current_code_block # <<>> THEN "codebody"
    ELSE IF is_heading(line) THEN "heading"
    ELSE IF StartsWith(line, <<">">>) THEN "quote"
    ELSE IF is_list_item(line) THEN "list"
    ELSE IF StoredImageDue(line, images, image_index) THEN "stored_image"
    ELSE IF StartsWith(line, <<"!", "[">>) /\ Contains(line, <<"]", "(">>)
         THEN (IF MarkdownImage(line) # None THEN "md_image" ELSE "md_unparsed")
    ELSE "paragraph"

\* The (url, alt) the line's branch calls add_image_to_story with.
LineImage(line, branch, images, image_index) ==
    IF branch = "stored_image"
    THEN [url |-> images[1][image_index + 1].src, alt |-> images[1][image_index + 1].alt]
    ELSE [url |-> FixCorruptedUrl(MarkdownImage(line)[1].url), alt |-> MarkdownImage(line)[1].alt]

\* content.split('\n')
SplitLines(content) ==
    LET cuts == <<0>> \o SelectSeq([j \in 1..Len(content) |-> IF content[j] = NL THEN j ELSE 0],
                                   LAMBDA j : j > 0) \o <<Len(content) + 1>>
    IN [j \in 1..(Len(cuts) - 1) |-> SubSeq(content, cuts[j] + 1, cuts[j + 1] - 1)]

(***************************************************************************)
(* The feed and fetch_rss_feed.                                            *)
(***************************************************************************)
\* Bounds of the model.
MaxEntries == 2
MaxCap == 2

\* The j-th entry of the feed on the network: has names the attributes
\* the parsed entry carries.
Entry(j) ==
    CASE j % 3 = 1 ->
            [has |-> {"title", "link", "published", "author"},
             title |-> <<"Title", ToString(j)>>, link |-> <<"https://blog.example/", ToString(j)>>,
             published |-> <<"2024-01-0", ToString(j)>>, author |-> <<"Ann">>]
      [] j % 3 = 2 ->
            [has |-> {"title", "link", "author"},
             title |-> <<"Title", ToString(j)>>, link |-> <<"https://blog.example/", ToString(j)>>,
             published |-> <<>>, author |-> <<>>]
      [] OTHER ->
            [has |-> {"published"},
             title |-> <<>>, link |-> <<>>,
             published |-> <<"2024-01-0", ToString(j)>>, author |-> <<>>]

\* getattr(entry, name, default)
GetAttr(entry, name, default) == IF name \in entry.has THEN entry[name] ELSE default

\* The j-th entry of a feed, carrying the attributes in has.
EntryAttrs == {"title", "link", "published", "author"}
EntryAt(j, has) ==
    [has |-> has,
     title |-> IF "title" \in has THEN <<"Title", ToString(j)>> ELSE <<>>,
     link |-> IF "link" \in has THEN <<"https://blog.example/", ToString(j)>> ELSE <<>>,
     published |-> IF "published" \in has THEN <<"2024-01-0", ToString(j)>> ELSE <<>>,
     author |-> IF "author" \in has THEN <<"Ann">> ELSE <<>>]
EntryWith(has) == EntryAt(1, has)

\* A dict made of the entry's fields as they are, without defaults.
ArticleRaw(entry) ==
    [title |-> entry.title, link |-> entry.link,
     published |-> entry.published, author |-> entry.author]

\* The dict fetch_rss_feed builds for one entry.
ArticleOf(entry) ==
    [title |-> GetAttr(entry, "title", <<"No title">>),
     link |-> GetAttr(entry, "link", <<>>),
     published |-> GetAttr(entry, "published", <<>>),
     author |-> GetAttr(entry, "author", <<"Unknown">>)]

\* A validation that takes a warning for a failure.
ValidationStrict(resp, entries) ==
    [valid |-> resp.reachable /\ resp.xml /\ ~resp.bozo /\ resp.recent /\ entries # <<>>
                  /\ \A j \in 1..Len(entries) : {"title", "link"} \subseteq entries[j].has,
     printed |-> {}]

\* validate_rss_feed(feed_url) on what the network answers: whether the
\* request succeeded (resp.reachable), whether the content type names xml,
\* rss or atom (resp.xml), feedparser's bozo flag, the parsed entries, and
\* whether one of the first ten entries is dated within 30 days
\* (resp.recent).  The result is the validity and what was printed.
ValidationReport(resp, entries) ==
    IF ~resp.reachable THEN [valid |-> FALSE, printed |-> {"Network error"}]
    ELSE LET warnings ==
                 (IF ~resp.xml THEN {"content type may not be RSS/Atom"} ELSE {})
                 \cup (IF resp.bozo THEN {"Feed may be malformed"} ELSE {})
             issues ==
                 (IF \E j \in 1..Len(entries) : "title" \notin entries[j].has
                  THEN {"entries missing titles"} ELSE {})
                 \cup (IF \E j \in 1..Len(entries) : "link" \notin entries[j].has
                       THEN {"entries missing links"} ELSE {})
                 \cup (IF ~resp.recent THEN {"No recent entries"} ELSE {})
         IN IF entries = <<>>
            THEN [valid |-> FALSE, printed |-> warnings \cup {"No entries found in feed"}]
            ELSE [valid |-> TRUE,
                  printed |-> warnings \cup {"validation successful"} \cup issues]

\* validate_rss_feed(feed_url)[0], the feed being reachable or not
validate_rss_feed(reachable, entries) == reachable /\ entries # <<>>

\* fetch_rss_feed(feed_url): the list it returns.
fetch_rss_feed(reachable, entries) ==
    IF ~validate_rss_feed(reachable, entries) THEN <<>>
    ELSE IF entries = <<>> THEN <<>>
    ELSE [j \in 1..Len(entries) |-> ArticleOf(entries[j])]

\* The Python type of what fetch_rss_feed returns, and the attributes a
\* value of a type has.
FetchReturnType == "list"
HasAttr(type, name) ==
    CASE type = "FeedParserDict" -> name \in {"feed", "entries", "bozo"}
      [] OTHER -> FALSE

\* check_feed_health(feed_url)
check_feed_health(reachable, entries) == validate_rss_feed(reachable, entries)

\* A faulty create_pdf: the cap is not applied.
CapIgnored(articles, max_articles) == articles

\* articles[:max_articles] under 'if max_articles:'
CapArticles(articles, max_articles) ==
    IF max_articles # None /\ max_articles[1] # 0
    THEN SubSeq(articles, 1, IF max_articles[1] < Len(articles) THEN max_articles[1]
                             ELSE Len(articles))
    ELSE articles

\* The blocks of the title page.
TitlePage(feed_url, articles) ==
    << Paragraph(<<"RSS Articles">>, "title"),
       Spacer(1, 20),
       Paragraph(<<"Feed: ">> \o feed_url, "meta"),
       Paragraph(<<"Generated: ", "<now>">>, "meta"),
       Paragraph(<<"Articles: ", ToString(Len(articles))>>, "meta"),
       PageBreak >>

\* The blocks that open an article's run.
ArticleHeader(article) ==
    << Paragraph(article.title, "subtitle"), Spacer(1, 8) >>
    \o (IF article.author # <<>> THEN <<Paragraph(<<"By: ">> \o article.author, "meta")>> ELSE <<>>)
    \o (IF article.published # <<>>
        THEN <<Paragraph(<<"Published: ">> \o article.published, "meta")>> ELSE <<>>)
    \o << Paragraph(<<"URL: ">> \o article.link, "meta"), Spacer(1, 12) >>

ContentPlaceholder == Paragraph(<<"Content could not be extracted.">>, "content")

(***************************************************************************)
(* The pages of the articles of a run.                                     *)
(***************************************************************************)
Html(body_kids) == Elem("html", {}, "", <<Elem("body", {}, "", body_kids)>>)

ImgA == <<"https://img.example/", "a.png">>
ImgA100 == <<"https://img.example/", "a.png", "?", "w=100">>
ImgA200 == <<"https://img.example/", "a.png", "?", "w=200">>
ImgB == <<"https://img.example/", "b.png">>

\* An <article> long enough, without images.
PagePlain ==
    Html(<<Elem("article", {}, "", <<TextNode(<<"Long600">>), TextNode(<<"Plain", SP, "text">>)>>)>>)
\* Two renditions of one image and another image, then a line that speaks of a figure.
PageImages ==
    Html(<<Elem("article", {}, "",
              <<TextNode(<<"Long600">>), Img(ImgA100, <<"sunset">>), Img(ImgA200, <<>>),
                Img(ImgB, <<>>), TextNode(<<"See", SP, "figure">>)>>)>>)
\* An image that links to its full-size rendition.
PageLinked ==
    Html(<<Elem("article", {}, "",
              <<TextNode(<<"Long600">>), Link(ImgA, <<Img(ImgA100, <<>>)>>)>>)>>)
\* A short <article> beside the long text of the page.
PageShort ==
    Html(<<Elem("article", {}, "", <<TextNode(<<"Short300">>), Img(ImgB, <<"chart">>)>>),
           Elem("div", {}, "", <<TextNode(<<"Long600">>)>>)>>)
\* No element of the selector list.
PageBodyOnly ==
    Html(<<Elem("nav", {}, "", <<TextNode(<<"Short300">>)>>),
           Elem("div", {}, "", <<TextNode(<<"Long600">>), Img(ImgB, <<>>)>>)>>)
\* Nothing to read.
PageEmpty == Html(<<>>)

ArticlePages == {PagePlain, PageImages, PageLinked, PageShort, PageBodyOnly, PageEmpty}

\* What a download can give: a failure, an ordinary picture, a very wide one.
DownloadResults ==
    { [ok |-> FALSE, w |-> 0, h |-> 0], [ok |-> TRUE, w |-> 800, h |-> 600],
      [ok |-> TRUE, w |-> 4000, h |-> 5] }

\* The results add_image_to_story can meet for a URL: those of alt_urls
\* count only when the except branch tries them.
AltResults(image_url) ==
    IF TriesAlternates(CleanImageUrl(image_url))
    THEN {<<a, b, c>> : a \in DownloadResults, b \in DownloadResults, c \in DownloadResults}
    ELSE {<<>>}

(***************************************************************************)
(* The run of the command: main, create_pdf and what they call.            *)
(***************************************************************************)
VARIABLES
    pc,                     \* where the run stands
    args,                   \* the parsed command line: mode, max_articles
    net_entries,            \* the entries of the feed on the network
    feed,                   \* main's local 'feed'
    articles,               \* create_pdf's local 'articles'
    story,                  \* create_pdf's local 'story'
    i,                      \* the loop counter of create_pdf
    starts,                 \* len(story) at the start of each iteration so far
    content,                \* what extract_article_content returned for article i
    current_article_images, \* self.current_article_images (None: not set)
    lines,                  \* add_formatted_content_to_story: content.split('\n')
    li,                     \* the index of the next line
    current_code_block,     \* its local current_code_block
    image_index,            \* its local image_index
    success,                \* main's local 'success' (None: Python's None)
    exit_code,              \* the exit status of the process (None: still running)
    out,                    \* what of the messages has been printed
    x                       \* extract_article_content run alone (None: not so run)

vars == << pc, args, net_entries, feed, articles, story, i, starts, content,
           current_article_images, lines, li, current_code_block, image_index,
           success, exit_code, out, x >>

rss_url == <<"https://blog.example/feed">>

Modes == {"pdf", "list", "health"}
Caps == {None} \cup {Some(m) : m \in 0..MaxCap}
Feeds == {[j \in 1..n |-> Entry(j)] : n \in 0..MaxEntries}

\* The converter and the locals of create_pdf before anything ran.
Fresh ==
    /\ feed = <<>>
    /\ articles = <<>>
    /\ story = <<>>
    /\ i = 0
    /\ starts = <<>>
    /\ content = None
    /\ current_article_images = None
    /\ lines = <<>>
    /\ li = 0
    /\ current_code_block = <<>>
    /\ image_index = 0
    /\ success = None
    /\ exit_code = None
    /\ out = {}

Init ==
    /\ pc = "main"
    /\ args \in [mode : Modes, max_articles : Caps]
    /\ net_entries \in Feeds
    /\ Fresh
    /\ x = None

create_pdf_locals == << articles, story, i, starts, content, current_article_images,
                        lines, li, current_code_block, image_index >>

\* The process ends with the given status.
Exit(status, printed) ==
    /\ pc' = "exit"
    /\ exit_code' = Some(status)
    /\ out' = out \cup printed

\* main with --health-check: check_feed_health, then sys.exit(1) or return.
MainHealthCheck ==
    /\ pc = "main" /\ args.mode = "health"
    /\ \E reachable \in BOOLEAN :
          IF check_feed_health(reachable, net_entries)
          THEN Exit(0, {"health report"})
          ELSE Exit(1, {"validation failed"})
    /\ UNCHANGED << args, net_entries, feed, create_pdf_locals, success, x >>

\* main without --health-check, up to the test of what fetch_rss_feed returned.
MainFetch ==
    /\ pc = "main" /\ args.mode # "health"
    /\ \E reachable \in BOOLEAN :
          LET got == fetch_rss_feed(reachable, net_entries) IN
          /\ feed' = got
          /\ IF got = <<>>
             THEN Exit(1, {"Failed to fetch RSS feed."})
             ELSE /\ pc' = IF args.mode = "list" THEN "list_feeds" ELSE "create_pdf"
                  /\ UNCHANGED << exit_code, out >>
    /\ UNCHANGED << args, net_entries, create_pdf_locals, success, x >>

\* main under --list-feeds: feed.feed and feed.entries are read.
MainListFeeds ==
    /\ pc = "list_feeds"
    /\ IF HasAttr(FetchReturnType, "feed") /\ HasAttr(FetchReturnType, "entries")
       THEN Exit(0, {"Feed Information", "entry titles"})
       ELSE Exit(1, {"Feed Information", "Traceback: AttributeError"})
    /\ UNCHANGED << args, net_entries, feed, create_pdf_locals, success, x >>

\* create_pdf from its start to the title page.
CreatePdfBegin ==
    /\ pc = "create_pdf"
    /\ \E reachable \in BOOLEAN :
          LET fetched == fetch_rss_feed(reachable, net_entries)
              capped == CapArticles(fetched, args.max_articles)
          IN IF fetched = <<>>
             THEN /\ pc' = "returned"
                  /\ success' = None
                  /\ out' = out \cup {"No articles found in the feed."}
                  /\ UNCHANGED << articles, story >>
             ELSE /\ pc' = "article"
                  /\ articles' = capped
                  /\ story' = TitlePage(rss_url, capped)
                  /\ UNCHANGED << success, out >>
    /\ UNCHANGED << args, net_entries, feed, i, starts, content, current_article_images,
                    lines, li, current_code_block, image_index, exit_code, x >>

\* What fetching and parsing an article's page can give: None when the
\* request fails, else the page.  An empty link cannot be requested.
PageFetches(link) == IF link = <<>> THEN {None} ELSE {None} \cup {Some(pg) : pg \in ArticlePages}

\* The start of one iteration of the loop over the articles: the header.
ArticleBegin ==
    /\ pc = "article" /\ i < Len(articles)
    /\ i' = i + 1
    /\ starts' = Append(starts, Len(story))
    /\ story' = story \o ArticleHeader(articles[i + 1])
    /\ pc' = "extract"
    /\ UNCHANGED << args, net_entries, feed, articles, content, current_article_images,
                    lines, li, current_code_block, image_index, success, exit_code, out, x >>

\* A faulty extract_article_content: the exception of the request leaves
\* create_pdf and main.
ArticleFetchRaises ==
    /\ Exit(1, {"Error creating PDF", "Traceback"})
    /\ UNCHANGED << content, current_article_images >>

\* extract_article_content when the request or the parse raised: the
\* except branch returns None.
ArticleFetchFailed ==
    /\ content' = None
    /\ pc' = "content_test"
    /\ UNCHANGED << current_article_images, exit_code, out >>

\* A faulty extract_article_content: the image list is not emptied first.
ArticleExtractedKeepsImages(page) ==
    LET xl == extract_article_content(page) IN
    /\ content' = ExtractReturn(xl)
    /\ current_article_images' =
           IF ~Truthy(xl.content) THEN current_article_images
           ELSE IF current_article_images = None THEN Some(StoredImages(xl))
           ELSE Some(current_article_images[1] \o StoredImages(xl))
    /\ pc' = "content_test"
    /\ UNCHANGED << exit_code, out >>

\* extract_article_content on the page fetched.
ArticleExtracted(page) ==
    LET xl == extract_article_content(page) IN
    /\ content' = ExtractReturn(xl)
    /\ current_article_images' =
           IF Truthy(xl.content) THEN Some(StoredImages(xl)) ELSE current_article_images
    /\ pc' = "content_test"
    /\ UNCHANGED << exit_code, out >>

\* content = self.extract_article_content(article['link'])
ArticleExtract ==
    /\ pc = "extract"
    /\ \E fetched \in PageFetches(articles[i].link) :
          IF fetched = None THEN ArticleFetchFailed ELSE ArticleExtracted(fetched[1])
    /\ UNCHANGED << args, net_entries, feed, articles, story, i, starts,
                    lines, li, current_code_block, image_index, success, x >>

\* 'if content:' taken: add_formatted_content_to_story starts.
ArticleFormat ==
    /\ pc = "content_test" /\ Truthy(content)
    /\ lines' = SplitLines(content[1])
    /\ li' = 1
    /\ current_code_block' = <<>>
    /\ image_index' = 0
    /\ pc' = "lines"
    /\ UNCHANGED << args, net_entries, feed, articles, story, i, starts, content,
                    current_article_images, success, exit_code, out, x >>

\* A faulty else branch: after the placeholder, the images still stored are added.
ArticleNoContentThenImages ==
    /\ pc = "content_test" /\ ~Truthy(content)
    /\ story' = story \o <<ContentPlaceholder>>
    /\ image_index' = 0
    /\ pc' = "remaining"
    /\ UNCHANGED << args, net_entries, feed, articles, i, starts, content,
                    current_article_images, lines, li, current_code_block,
                    success, exit_code, out, x >>

\* The else branch of 'if content:'.
ArticleNoContent ==
    /\ pc = "content_test" /\ ~Truthy(content)
    /\ story' = story \o <<ContentPlaceholder>>
    /\ pc' = "article_end"
    /\ UNCHANGED << args, net_entries, feed, articles, i, starts, content,
                    current_article_images, lines, li, current_code_block, image_index,
                    success, exit_code, out, x >>

\* One iteration of 'for line in lines' of add_formatted_content_to_story.
FormatLine ==
    /\ pc = "lines" /\ li <= Len(lines)
    /\ LET line == Strip(lines[li])
           branch == LineBranch(line, current_code_block, current_article_images, image_index)
       IN /\ CASE branch = "blank" -> UNCHANGED << story, current_code_block, image_index >>
               [] branch = "marker" ->
                     /\ story' = story \o add_code_block_to_story(current_code_block)
                     /\ current_code_block' = <<>>
                     /\ UNCHANGED image_index
               [] branch = "codebody" ->
                     /\ current_code_block' = Append(current_code_block, line)
                     /\ UNCHANGED << story, image_index >>
               [] branch = "heading" ->
                     /\ story' = story \o add_heading_to_story(line)
                     /\ UNCHANGED << current_code_block, image_index >>
               [] branch = "quote" ->
                     /\ story' = story \o add_quote_to_story(line)
                     /\ UNCHANGED << current_code_block, image_index >>
               [] branch = "list" ->
                     /\ story' = story \o add_list_item_to_story(line)
                     /\ UNCHANGED << current_code_block, image_index >>
               [] branch \in {"stored_image", "md_image"} ->
                     LET img == LineImage(line, branch, current_article_images, image_index) IN
                     /\ \E first \in DownloadResults : \E alts \in AltResults(img.url) :
                           story' = story \o add_image_to_story(img.url, img.alt, first, alts)
                     /\ image_index' = IF branch = "stored_image" THEN image_index + 1
                                       ELSE image_index
                     /\ UNCHANGED current_code_block
               [] branch = "md_unparsed" -> UNCHANGED << story, current_code_block, image_index >>
               [] branch = "paragraph" ->
                     /\ story' = story \o <<Paragraph(line, "content"), Spacer(1, 8)>>
                     /\ UNCHANGED << current_code_block, image_index >>
    /\ li' = li + 1
    /\ UNCHANGED << pc, args, net_entries, feed, articles, i, starts, content,
                    current_article_images, lines, success, exit_code, out, x >>

\* After the loop: the code block still held is added.
FormatFlush ==
    /\ pc = "lines" /\ li > Len(lines)
    /\ story' = story \o add_code_block_to_story(current_code_block)
    /\ pc' = "remaining"
    /\ UNCHANGED << args, net_entries, feed, articles, i, starts, content,
                    current_article_images, lines, li, current_code_block, image_index,
                    success, exit_code, out, x >>

\* Whether the loop over the images not yet placed has one to add.
ImagesRemain ==
    current_article_images # None /\ current_article_images[1] # <<>>
        /\ image_index < Len(current_article_images[1])

\* One iteration of 'for i in range(image_index, len(self.current_article_images))'.
FormatRemainingImage ==
    /\ pc = "remaining" /\ ImagesRemain
    /\ LET img == current_article_images[1][image_index + 1] IN
          \E first \in DownloadResults : \E alts \in AltResults(img.src) :
              story' = story \o add_image_to_story(img.src, img.alt, first, alts)
    /\ image_index' = image_index + 1
    /\ UNCHANGED << pc, args, net_entries, feed, articles, i, starts, content,
                    current_article_images, lines, li, current_code_block,
                    success, exit_code, out, x >>

\* add_formatted_content_to_story returns.
FormatReturn ==
    /\ pc = "remaining" /\ ~ImagesRemain
    /\ pc' = "article_end"
    /\ UNCHANGED << args, net_entries, feed, articles, story, i, starts, content,
                    current_article_images, lines, li, current_code_block, image_index,
                    success, exit_code, out, x >>

\* A faulty end of the loop body: a page break after every article.
ArticleBreakAlways(index, total) == <<PageBreak>>

\* 'if i < len(articles): story.append(PageBreak())'
ArticleBreak(index, total) == IF index < total THEN <<PageBreak>> ELSE <<>>

\* The end of the loop body: the page break between articles.
ArticleEnd ==
    /\ pc = "article_end"
    /\ story' = story \o ArticleBreak(i, Len(articles))
    /\ pc' = "article"
    /\ UNCHANGED << args, net_entries, feed, articles, i, starts, content,
                    current_article_images, lines, li, current_code_block, image_index,
                    success, exit_code, out, x >>

\* A faulty except branch: the error of the build is printed and create_pdf
\* returns.
BuildPdfSwallows ==
    /\ pc = "article" /\ i >= Len(articles)
    /\ \E built \in BOOLEAN :
          /\ pc' = "returned"
          /\ success' = None
          /\ out' = out \cup (IF built THEN {"PDF successfully created"}
                              ELSE {"Error creating PDF"})
          /\ UNCHANGED exit_code
    /\ UNCHANGED << args, net_entries, feed, create_pdf_locals, x >>

\* doc.build(story) and the rest of create_pdf.  The build may raise (a
\* flowable that fits no page); create_pdf prints the error and raises
\* it again, and main does not catch it.
BuildPdf ==
    /\ pc = "article" /\ i >= Len(articles)
    /\ \E built \in BOOLEAN :
          IF built
          THEN /\ pc' = "returned"
               /\ success' = None
               /\ out' = out \cup {"PDF successfully created"}
               /\ UNCHANGED exit_code
          ELSE Exit(1, {"Error creating PDF", "Traceback"}) /\ UNCHANGED success
    /\ UNCHANGED << args, net_entries, feed, create_pdf_locals, x >>

\* Python truth of main's 'success'.
SuccessTruthy == success # None /\ success[1] = TRUE

\* main after create_pdf returned: 'if success: ... else: sys.exit(1)'.
MainAfterCreatePdf ==
    /\ pc = "returned"
    /\ IF SuccessTruthy
       THEN Exit(0, {"PDF created successfully"})
       ELSE Exit(1, {"Failed to create PDF."})
    /\ UNCHANGED << args, net_entries, feed, create_pdf_locals, success, x >>

Next ==
    \/ MainHealthCheck
    \/ MainFetch
    \/ MainListFeeds
    \/ CreatePdfBegin
    \/ ArticleBegin
    \/ ArticleExtract
    \/ ArticleFormat
    \/ ArticleNoContent
    \/ FormatLine
    \/ FormatFlush
    \/ FormatRemainingImage
    \/ FormatReturn
    \/ ArticleEnd
    \/ BuildPdf
    \/ MainAfterCreatePdf

Spec == Init /\ [][Next]_vars

(***************************************************************************)
(* extract_article_content run alone, one selector of its loop at a time,  *)
(* on the pages made of up to MaxBlocks blocks.  x holds the page, the     *)
(* locals, the index k of the next selector, what each selector tried so   *)
(* far matched (tried) and the value returned.                           *)
(***************************************************************************)
MaxBlocks == 2

\* The elements a page's <body> is made of.
Blocks ==
    { Elem("article", {}, "", <<TextNode(<<"Long600">>), Img(ImgA100, <<"sunset">>)>>),
      Elem("article", {}, "",
           <<TextNode(<<"Edge500">>), Elem("nav", {}, "", <<TextNode(<<"Tiny10">>)>>)>>),
      Elem("article", {}, "", <<TextNode(<<"Short300">>), Img(ImgB, <<"chart">>)>>),
      Elem("article", {}, "", <<>>),
      Elem("main", {}, "",
           <<TextNode(<<"Long501">>),
             Elem("div", {"sidebar"}, "", <<TextNode(<<"Short300">>), Img(ImgB, <<>>)>>)>>),
      Elem("main", {}, "", <<TextNode(<<"Short300">>)>>),
      Elem("div", {"post-content"}, "", <<TextNode(<<"Long600">>), Img(ImgA, <<>>)>>),
      Elem("div", {}, "primary", <<TextNode(<<"Edge500">>), TextNode(<<"Tiny10">>)>>),
      Elem("div", {}, "", <<TextNode(<<"Long600">>), Img(ImgA200, <<>>)>>),
      Elem("nav", {}, "", <<TextNode(<<"Short300">>), Img(ImgB, <<>>)>>),
      Elem("div", {"sidebar"}, "", <<TextNode(<<"Short300">>)>>) }

Pages == UNION {{Html(kids) : kids \in [1..n -> Blocks]} : n \in 1..MaxBlocks}

InitExtract ==
    /\ pc = "x_request"
    /\ args = [mode |-> "pdf", max_articles |-> None]
    /\ net_entries = <<>>
    /\ Fresh
    /\ x \in {[page |-> pg, locals |-> None, k |-> 0, tried |-> <<>>] : pg \in Pages}

\* requests.get, raise_for_status, BeautifulSoup and the removal of the
\* scripts: an exception goes to the except branch, which returns None.
XParse ==
    /\ pc = "x_request"
    /\ \E fetched \in BOOLEAN :
          IF fetched
          THEN /\ x' = [x EXCEPT !.locals = Some(ExtractLocals(x.page)), !.k = 1]
               /\ pc' = "x_loop"
               /\ UNCHANGED content
          ELSE /\ content' = None
               /\ pc' = "x_done"
               /\ UNCHANGED x
    /\ UNCHANGED << args, net_entries, feed, articles, story, i, starts,
                    current_article_images, lines, li, current_code_block, image_index,
                    success, exit_code, out >>

\* One iteration of 'for selector in content_selectors'.
XSelector ==
    /\ pc = "x_loop" /\ x.k <= Len(content_selectors) /\ ~x.locals[1].broke
    /\ LET selector == content_selectors[x.k]
           found == select_one(x.locals[1].soup, selector)
           after == SelectorStep(x.locals[1], selector)
       IN x' = [x EXCEPT !.locals = Some(after),
                         !.k = @ + 1,
                         !.tried = Append(@, [matched |-> found # None,
                                              len |-> IF found # None
                                                      THEN StrLen(after.content[1]) ELSE 0])]
    /\ UNCHANGED << pc, args, net_entries, feed, articles, story, i, starts, content,
                    current_article_images, lines, li, current_code_block, image_index,
                    success, exit_code, out >>

\* The loop is left; 'if not content:' and the body fallback.
XBodyFallback ==
    /\ pc = "x_loop" /\ (x.k > Len(content_selectors) \/ x.locals[1].broke)
    /\ x' = [x EXCEPT !.locals = Some(BodyFallback(x.locals[1]))]
    /\ pc' = "x_tail"
    /\ UNCHANGED << args, net_entries, feed, articles, story, i, starts, content,
                    current_article_images, lines, li, current_code_block, image_index,
                    success, exit_code, out >>

\* 'if content:' to the return: the images are stored, the text is returned.
XReturn ==
    /\ pc = "x_tail"
    /\ content' = ExtractReturn(x.locals[1])
    /\ current_article_images' =
           IF Truthy(x.locals[1].content) THEN Some(StoredImages(x.locals[1]))
           ELSE current_article_images
    /\ pc' = "x_done"
    /\ UNCHANGED << args, net_entries, feed, articles, story, i, starts,
                    lines, li, current_code_block, image_index, success, exit_code, out, x >>

NextExtract ==
    \/ XParse
    \/ XSelector
    \/ XBodyFallback
    \/ XReturn

SpecExtract == InitExtract /\ [][NextExtract]_vars

\* The loop taken one selector at a time ends with the locals the
\* function has when run in one piece.
SteppedAgrees ==
    pc \in {"x_tail", "x_done"} /\ x.locals # None
        => x.locals[1] = extract_article_content(x.page)

(***************************************************************************)
(* The run under the scheduling of a sequential program: a step that can   *)
(* be taken is taken.                                                      *)
(***************************************************************************)
FairSpec == Spec /\ WF_vars(Next)

(***************************************************************************)
(* Properties.                                                             *)
(***************************************************************************)
Min(a, b) == IF a < b THEN a ELSE b

IsPageBreak(b) == b.k = "PageBreak"
IsImage(b) == b.k = "Image"
IsImageFailure(b) == b.k = "Paragraph" /\ b.style = "image"

\* The blocks of article j: from its title to the next article's title.
RunOf(j) ==
    SubSeq(story, starts[j] + 1, IF j < Len(starts) THEN starts[j + 1] ELSE Len(story))

\* The positions of the page breaks of a run of blocks.
Breaks(run) == {p \in 1..Len(run) : IsPageBreak(run[p])}

\* The story create_pdf hands to doc.build.
StoryComplete ==
    story # <<>> /\ pc \in {"article", "returned", "exit"} /\ i = Len(articles)

\* The run ended with a message that the feed could not be used.
FeedUnavailable ==
    out \cap {"Failed to fetch RSS feed.", "validation failed",
              "No articles found in the feed."} # {}

\* C1: in every mode the exit status is 1 when the feed could not be
\* fetched or validated and 0 otherwise; a run whose create_pdf built the
\* document without raising ends with status 0.
C1_ExitStatus ==
    (pc = "exit" /\ "Error creating PDF" \notin out)
        => exit_code = Some(IF FeedUnavailable THEN 1 ELSE 0)

\* C2: create_pdf returns a true value when it built the PDF to the end
\* and a false one only when no PDF was produced.
C2_CreatePdfReturnsSuccess ==
    pc = "returned" => (SuccessTruthy <=> "PDF successfully created" \in out)

\* C3: for a feed that passed validation, list-feeds mode reads .feed and
\* .entries of what fetch_rss_feed returned, prints the entry titles and
\* returns normally, no document having been started.
C3_ListFeedsPrintsTitles ==
    (pc = "exit" /\ args.mode = "list" /\ feed # <<>>)
        => /\ "entry titles" \in out
           /\ exit_code = Some(0)
           /\ story = <<>>

\* C4: the story starts with the title page, whose last block is its only
\* page break; every article but the last ends with exactly one page
\* break, the last article holds none, and neither the first nor the last
\* block of the finished story is a page break.
C4_PageBreaks ==
    story # <<>> =>
        /\ Len(story) >= 6
        /\ SubSeq(story, 1, 6) = TitlePage(rss_url, articles)
        /\ Breaks(SubSeq(story, 1, 6)) = {6}
        /\ \A j \in 1..Len(starts) :
              /\ IsPageBreak(story[starts[j]])
              /\ story[starts[j] + 1] = Paragraph(articles[j].title, "subtitle")
              /\ Breaks(RunOf(j)) \subseteq {Len(RunOf(j))}
              /\ j < Len(starts) => Breaks(RunOf(j)) = {Len(RunOf(j))}
        /\ StoryComplete =>
              /\ ~IsPageBreak(story[1]) /\ ~IsPageBreak(story[Len(story)])
              /\ Len(starts) = Len(articles)
              /\ Breaks(RunOf(Len(starts))) = {}
              /\ Cardinality(Breaks(story)) = Len(articles)

\* A finished story of two articles whose content held images.
C4_Witness ==
    /\ StoryComplete /\ Len(articles) = 2
    /\ \E p \in 1..Len(RunOf(1)) : IsImage(RunOf(1)[p])
    /\ \E p \in 1..Len(RunOf(2)) : RunOf(2)[p] = ContentPlaceholder

\* C5: under a cap m >= 1 on a feed of n entries, the articles are the
\* first min(n, m) entries in feed order, the title page shows that number,
\* the finished story holds that many article sections, and for n = 2,
\* m = 1 it holds one section with no page break after it.
C5_Cap ==
    (story # <<>> /\ args.max_articles # None /\ args.max_articles[1] >= 1) =>
        LET n == Len(net_entries)
            m == args.max_articles[1]
        IN /\ articles = [j \in 1..Min(n, m) |-> ArticleOf(net_entries[j])]
           /\ story[5] = Paragraph(<<"Articles: ", ToString(Min(n, m))>>, "meta")
           /\ StoryComplete =>
                 /\ Len(starts) = Min(n, m)
                 /\ \A j \in 1..Len(starts) :
                       story[starts[j] + 1] = Paragraph(articles[j].title, "subtitle")
                 /\ Cardinality(Breaks(story)) = Min(n, m)
                 /\ (n = 2 /\ m = 1) => (Len(starts) = 1 /\ Breaks(story) = {6})

\* The finished story of a feed of two entries under the cap 1.
C5_Witness ==
    StoryComplete /\ Len(net_entries) = 2 /\ args.max_articles = Some(1)

\* C6: when extract_article_content returned None, the article's run
\* holds the placeholder paragraph exactly once, no image and no
\* image-failure note.
C6_PlaceholderOnly ==
    (pc = "article_end" /\ content = None) =>
        LET run == RunOf(i) IN
        /\ Cardinality({p \in 1..Len(run) : run[p] = ContentPlaceholder}) = 1
        /\ \A p \in 1..Len(run) : ~IsImage(run[p]) /\ ~IsImageFailure(run[p])

\* The second article's page could not be fetched, the first article's
\* images being still stored.
C6_Witness ==
    /\ pc = "article_end" /\ content = None /\ i = 2
    /\ current_article_images # None /\ current_article_images[1] # <<>>

\* The positions of create_pdf's loop over the articles.
LoopPcs == {"article", "extract", "content_test", "lines", "remaining", "article_end"}

\* The loop is left for the end of the process only at doc.build.
ExitOnlyAtBuild ==
    (pc \in LoopPcs /\ pc' = "exit") => (pc = "article" /\ i = Len(articles))

\* In the finished story every article of the capped list has its run, in
\* the order of the list: its header, then its content or the placeholder.
EveryArticleProcessed ==
    StoryComplete =>
        /\ Len(starts) = Len(articles)
        /\ \A j \in 1..Len(starts) :
              LET header == ArticleHeader(articles[j]) IN
              /\ SubSeq(RunOf(j), 1, Len(header)) = header
              /\ Len(RunOf(j)) > Len(header)
              /\ j > 1 => starts[j - 1] < starts[j]

\* C7: a failed page fetch or a failed image download never ends the run:
\* once an article is begun, create_pdf goes on through all the articles of
\* the capped list to doc.build, each article having its header and its
\* content or placeholder, and the loop is left for the end of the process
\* nowhere but at the build.
C7_FailuresIsolated ==
    /\ [][ExitOnlyAtBuild]_vars
    /\ []EveryArticleProcessed
    /\ (pc = "extract") ~> (StoryComplete /\ pc \in {"returned", "exit"})

\* A finished story whose first article could not be fetched and whose
\* second article holds the note of an image that failed to load.
C7_Witness ==
    /\ StoryComplete /\ Len(articles) = 2
    /\ \E p \in 1..Len(RunOf(1)) : RunOf(1)[p] = ContentPlaceholder
    /\ \E p \in 1..Len(RunOf(2)) : IsImageFailure(RunOf(2)[p])

\* The base keys of the images of a run, in the order of the blocks.
ImageKeys(run) ==
    LET imgs == SelectSeq(run, IsImage)
    IN [p \in 1..Len(imgs) |-> extract_base_image_url(imgs[p].text)]

RECURSIVE IsSubsequence(_, _)
IsSubsequence(a, b) ==
    IF a = <<>> THEN TRUE
    ELSE IF b = <<>> THEN FALSE
    ELSE IF Head(a) = Head(b) THEN IsSubsequence(Tail(a), Tail(b))
    ELSE IsSubsequence(a, Tail(b))

\* C8: in the run add_formatted_content_to_story made for an article, no
\* two image blocks have the same base key, and the images stand in the
\* order in which the page's images were stored.
C8_ImagesOncePerKey ==
    (pc = "article_end" /\ Truthy(content)) =>
        LET keys == ImageKeys(RunOf(i))
            stored == [p \in 1..Len(current_article_images[1]) |->
                          extract_base_image_url(current_article_images[1][p].src)]
        IN /\ \A p, q \in 1..Len(keys) : p # q => keys[p] # keys[q]
           /\ IsSubsequence(keys, stored)

\* The selectors tried so far that matched an element of more than 500
\* characters after the stripping.
Winners == {j \in 1..Len(x.tried) : x.tried[j].matched /\ x.tried[j].len > ContentThreshold}

\* No descendant of the element is one the two stripping passes remove.
Stripped(node) == RemoveDescendants(RemoveDescendants(node, "tags"), "class") = node

\* C9: when a selector of the list matched an element of more than 500
\* characters after the stripping, the first such selector is the one
\* used, no later selector is tried, and the text and the images returned
\* are those of the element it matched.  What a selector matched is what
\* select_one gave when the loop came to it, the elements of the selectors
\* before it being already stripped.
C9_EarliestSelectorWins ==
    (pc \in {"x_tail", "x_done"} /\ x.locals # None) =>
        LET l == x.locals[1] IN
        IF Winners # {}
        THEN LET w == CHOOSE a \in Winners : \A b \in Winners : a <= b
                 elem == NodeAt(l.soup, l.content_elem[1])
             IN /\ Len(x.tried) = w
                /\ l.used_selector = Some(content_selectors[w])
                /\ l.content_elem # None
                /\ Matches(elem, content_selectors[w])
                /\ Stripped(elem)
                /\ l.content = Some(get_text(elem))
                /\ StrLen(get_text(elem)) > 500
                /\ pc = "x_done" =>
                      /\ content = Some(clean_markdown_content(HtmlToMarkdown(elem)))
                      /\ current_article_images = Some(CollectImages(FindImgs(elem), 1, {}))
        ELSE /\ Len(x.tried) = Len(content_selectors)
             /\ l.used_selector \in {None, Some(TagSel("body"))}

\* A selector after the first won, an earlier one having matched an
\* element that stayed at or below the threshold.
C9_Witness ==
    /\ pc = "x_done" /\ x.locals # None /\ Winners # {}
    /\ \E j \in 1..Len(x.tried) : x.tried[j].matched /\ j \notin Winners
    /\ current_article_images # None /\ current_article_images[1] # <<>>

\* C10: when no selector of the list passed the threshold, the text and
\* the images returned are those of <body>, stripped of the subtrees the
\* selector loop strips by tag and by class.
C10_BodyFallback ==
    (pc = "x_done" /\ x.locals # None /\ Winners = {}) =>
        LET l == x.locals[1]
            body == find_body(l.soup)
            elem == NodeAt(l.soup, body[1])
        IN /\ l.used_selector = Some(TagSel("body"))
           /\ l.content_elem = body
           /\ Stripped(elem)
           /\ l.content = Some(get_text(elem))
           /\ Truthy(l.content) =>
                 /\ content = Some(clean_markdown_content(HtmlToMarkdown(elem)))
                 /\ current_article_images = Some(CollectImages(FindImgs(elem), 1, {}))

(***************************************************************************)
(* add_formatted_content_to_story on its own: create_pdf at the test of    *)
(* the content of the only article of a feed, the content and the images   *)
(* stored for the article drawn from the texts of up to MaxLines lines.    *)
(***************************************************************************)
MaxLines == 2

ContentLines ==
    { <<>>,
      <<"CODE BLOCK:">>,
      <<"#", "#", SP, "Heading">>,
      <<"Q", ":", SP, "x">>,
      <<">", SP, "INTRO">>,
      <<"Heading", ":">>,
      <<">", SP, "x">>,
      <<"-", SP, "figure">>,
      <<"!", "[", "]", "(">> \o ImgB \o <<")">>,
      <<"!", "[", "sunset", "]", "(">> \o ImgA \o <<")">>,
      <<"!", "[", "x", "]", "(", "x">>,
      <<"See", SP, "figure">>,
      <<"Plain", SP, "text">>,
      <<"print", "(", "1", ")">> }

Contents ==
    {c \in UNION {{Join(ls, NL) : ls \in [1..n -> ContentLines]} : n \in 1..MaxLines} :
        c # <<>>}

\* What extract_article_content stored for the article.
StoredLists ==
    { <<>>, <<[src |-> ImgA, alt |-> <<"sunset">>], [src |-> ImgB, alt |-> <<>>]>> }

InitFormat ==
    /\ pc = "content_test"
    /\ args = [mode |-> "pdf", max_articles |-> None]
    /\ net_entries = <<Entry(1)>>
    /\ feed = fetch_rss_feed(TRUE, net_entries)
    /\ articles = feed
    /\ story = TitlePage(rss_url, articles) \o ArticleHeader(articles[1])
    /\ starts = <<Len(TitlePage(rss_url, articles))>>
    /\ i = 1
    /\ content \in {Some(c) : c \in Contents}
    /\ current_article_images \in {Some(l) : l \in StoredLists}
    /\ lines = <<>>
    /\ li = 0
    /\ current_code_block = <<>>
    /\ image_index = 0
    /\ success = None
    /\ exit_code = None
    /\ out = {}
    /\ x = None

NextFormat ==
    \/ ArticleFormat
    \/ FormatLine
    \/ FormatFlush
    \/ FormatRemainingImage
    \/ FormatReturn

SpecFormat == InitFormat /\ [][NextFormat]_vars

(***************************************************************************)
(* clean_text: the fallback of clean_html_for_pdf.  An entity is the token *)
(* "&" followed by the token of its name and semicolon.                    *)
(***************************************************************************)
\* The str.replace calls on entities, in the order of the code.
Entities ==
    << <<"quot;", "\"">>, <<"ldquo;", "\"">>, <<"rdquo;", "\"">>, <<"lsquo;", "'">>,
       <<"rsquo;", "'">>, <<"apos;", "'">>, <<"amp;", "&">>, <<"lt;", "<">>,
       <<"gt;", ">">>, <<"nbsp;", SP>> >>

\* The str.replace calls on escaped characters, in the order of the code.
Escapes == << "\"", "'", "\\", ".", ",", "!", "?" >>

RECURSIVE ReplaceEntities(_, _)
ReplaceEntities(s, k) ==
    IF k > Len(Entities) THEN s
    ELSE ReplaceEntities(ReplaceAll(s, <<"&", Entities[k][1]>>, <<Entities[k][2]>>), k + 1)

RECURSIVE ReplaceEscapes(_, _)
ReplaceEscapes(s, k) ==
    IF k > Len(Escapes) THEN s
    ELSE ReplaceEscapes(ReplaceAll(s, <<"\\", Escapes[k]>>, <<Escapes[k]>>), k + 1)

\* clean_text(text)
clean_text(text) ==
    IF text = <<>> THEN <<>>
    ELSE LET t1 == ReplaceEntities(text, 1)
             t2 == ReplaceEscapes(t1, 1)
             t3 == ReplaceAll(t2, <<"\\">>, <<>>)
             t4 == SelectSeq(t3, LAMBDA t : t \notin NonPrintable)
             t5 == Sub(t4, "excl_isolated")
             t6 == Sub(t5, "excl_multi")
             t7 == Sub(t6, "symbols_isolated")
             t8 == Sub(t7, "whitespace")
         IN Strip(t8)

(***************************************************************************)
(* The pure functions of the converter called on their own: one call per   *)
(* behaviour.  x holds the function called, its arguments a and b and the  *)
(* value returned.                                                         *)
(***************************************************************************)
MaxParts == 2

Call(fn, a, b) == [fn |-> fn, a |-> a, b |-> b, out |-> None]

\* URLs: a host, then path segments.
UrlSegments ==
    { <<"avatar">>, <<"Logo">>, <<"photo">>, <<"w", "_", "36">>, <<"w", "_", "1456">> }
ImageUrls ==
    UNION {{<<"https://img.example/">> \o Join(segs, "/") \o <<".png">> :
                segs \in [1..n -> UrlSegments]} : n \in 0..MaxParts}
AltTexts == { <<>>, <<"x">>, <<"sunset">>, <<"Logo">>, <<"user", SP, "photo">> }

IsContentImageCalls == {Call("is_content_image", u, a) : u \in ImageUrls, a \in AltTexts}

\* Query strings: '?' before the first parameter, '&' before the others.
SizeParams == { <<"w=100">>, <<"w=200">>, <<"h=50">>, <<"c", "_", "limit">>, <<"c", "_", "fill">> }
OtherParams == { <<"q=1">> }
QueryStrings ==
    UNION {[1..n -> SizeParams \cup OtherParams] : n \in 0..MaxParts}
UrlWith(params) ==
    <<"https://img.example/a.png">>
        \o Flatten([j \in 1..Len(params) |-> <<IF j = 1 THEN "?" ELSE "&">> \o params[j]])
\* The parameters of a query string that are not size parameters, in order.
OtherOf(params) == SelectSeq(params, LAMBDA p : p \in OtherParams)

\* Pairs of URLs that differ only in their size parameters.
ExtractBaseImageUrlCalls ==
    {Call("extract_base_image_url", UrlWith(pq[1]), UrlWith(pq[2])) :
        pq \in {qq \in QueryStrings \X QueryStrings : OtherOf(qq[1]) = OtherOf(qq[2])}}

MaxChars == 3

\* Texts of up to MaxChars tokens.
TextTokens == {"&", "amp;", "quot;", "lt;", "x", SP, "!", "\\", "U+00E9"}
CleanTextCalls ==
    UNION {{Call("clean_text", t, <<>>) : t \in [1..n -> TextTokens]} : n \in 0..MaxChars}

MaxSegments == 2

\* Markdown texts: segments separated by blank lines.  A segment is a fenced
\* code block, an image, a link or plain text.
Segment(kind, lang, body, url) == [kind |-> kind, lang |-> lang, body |-> body, url |-> url]
Segments ==
    { Segment("fence", <<"python">>, <<"print", "(", "1", ")">>, <<>>),
      Segment("fence", <<>>, <<"x", SP, "=", SP, "1">>, <<>>),
      Segment("image", <<>>, <<"sunset">>, <<"https://img.example/a.png">>),
      Segment("image", <<>>, <<>>, <<"https://img.example/b.png">>),
      Segment("link", <<>>, <<"See">>, <<"https://blog.example/post">>),
      Segment("text", <<>>, <<"Heading">>, <<>>) }
Render(seg) ==
    CASE seg.kind = "fence" -> <<BT, BT, BT>> \o seg.lang \o <<NL>> \o seg.body \o <<NL, BT, BT, BT>>
      [] seg.kind = "image" -> <<"!", "[">> \o seg.body \o <<"]", "(">> \o seg.url \o <<")">>
      [] seg.kind = "link" -> <<"[">> \o seg.body \o <<"]", "(">> \o seg.url \o <<")">>
      [] OTHER -> seg.body
RECURSIVE RenderAll(_)
RenderAll(segs) ==
    IF segs = <<>> THEN <<>>
    ELSE IF Len(segs) = 1 THEN Render(segs[1])
    ELSE Render(segs[1]) \o <<NL, NL>> \o RenderAll(Tail(segs))
CleanMarkdownContentCalls ==
    UNION {{Call("clean_markdown_content", RenderAll(segs), segs) :
                segs \in [1..n -> Segments]} : n \in 0..MaxSegments}

\* Markdown heading lines: 1 to 6 '#', whitespace, a text; spaces around.
HeadingLevels == 1..6
HeadingTexts == { <<"Section", SP, "Title">>, <<"INTRO">> }
Padding == { <<>>, <<SP>> }
HeadingLine(level, text, before, after) ==
    before \o [j \in 1..level |-> "#"] \o <<SP>> \o text \o after
AddHeadingToStoryCalls ==
    {Call("add_heading_to_story", HeadingLine(n, t, p, q), [level |-> n, text |-> t]) :
        n \in HeadingLevels, t \in HeadingTexts, p \in Padding, q \in Padding}

\* Images of another host, of the CDN in the form add_image_to_story builds
\* itself, and of the CDN around a CDN URL; what the first download and the
\* downloads of the three alternate URLs answer.
CdnImage == CdnUrlFor(Preset1456, "ab12", "10x10")
CdnNestedImage == <<CdnPrefix, "x", "/", CdnPrefix, "ab12", "_", "10x10", ".png">>
PixelSizes ==
    DownloadResults \cup { [ok |-> TRUE, w |-> 300, h |-> 10], [ok |-> TRUE, w |-> 401, h |-> 1] }
AddImageToStoryCalls ==
    {Call("add_image_to_story", u, [alt |-> a, first |-> r, alts |-> rs]) :
        u \in {ImgA, CdnImage, CdnNestedImage}, a \in {<<>>, <<"sunset">>},
        r \in PixelSizes, rs \in DownloadResults \X DownloadResults \X DownloadResults}

\* Feeds of up to MaxEntries entries and what the network answers for them.
EntryShapes == { EntryAttrs, {}, {"title", "link"}, {"published", "author"} }
EntryLists ==
    UNION {{[j \in 1..n |-> EntryAt(j, hs[j])] : hs \in [1..n -> EntryShapes]} : n \in 0..MaxEntries}
Responses ==
    [reachable : BOOLEAN, xml : BOOLEAN, bozo : BOOLEAN, recent : BOOLEAN]
FetchRssFeedCalls ==
    UNION {{Call("fetch_rss_feed", <<"https://blog.example/feed">>, [resp |-> r, entries |-> es]) :
               es \in {l \in EntryLists :
                          r.recent => \E j \in 1..Len(l) : "published" \in l[j].has}} :
           r \in Responses}

CallInputs ==
    IsContentImageCalls
        \cup ExtractBaseImageUrlCalls
        \cup CleanTextCalls
        \cup CleanMarkdownContentCalls
        \cup AddHeadingToStoryCalls
        \cup AddImageToStoryCalls
        \cup FetchRssFeedCalls

InitCalls ==
    /\ pc = "call"
    /\ args = [mode |-> "pdf", max_articles |-> None]
    /\ net_entries = <<>>
    /\ Fresh
    /\ x \in CallInputs

Returns(fn, value) ==
    /\ pc = "call"
    /\ x.fn = fn
    /\ x' = [x EXCEPT !.out = Some(value)]
    /\ pc' = "returned"
    /\ UNCHANGED << args, net_entries, feed, articles, story, i, starts, content,
                    current_article_images, lines, li, current_code_block,
                    image_index, success, exit_code, out >>

CallIsContentImage == Returns("is_content_image", is_content_image(x.a, x.b))

\* The key of each of the two URLs.
CallExtractBaseImageUrl ==
    Returns("extract_base_image_url",
            <<extract_base_image_url(x.a), extract_base_image_url(x.b)>>)

CallCleanText == Returns("clean_text", clean_text(x.a))

CallCleanMarkdownContent == Returns("clean_markdown_content", clean_markdown_content(x.a))

CallAddHeadingToStory == Returns("add_heading_to_story", add_heading_to_story(x.a))

CallAddImageToStory ==
    Returns("add_image_to_story", add_image_to_story(x.a, x.b.alt, x.b.first, x.b.alts))

\* fetch_rss_feed(feed_url): what validate_rss_feed gave and printed, and
\* the list returned.
CallFetchRssFeed ==
    LET report == ValidationReport(x.b.resp, x.b.entries) IN
    Returns("fetch_rss_feed",
            [valid |-> report.valid, printed |-> report.printed,
             articles |-> IF report.valid THEN fetch_rss_feed(x.b.resp.reachable, x.b.entries) ELSE <<>>])

NextCalls ==
    \/ CallIsContentImage
    \/ CallExtractBaseImageUrl
    \/ CallCleanText
    \/ CallCleanMarkdownContent
    \/ CallAddHeadingToStory
    \/ CallAddImageToStory
    \/ CallFetchRssFeed

SpecCalls == InitCalls /\ [][NextCalls]_vars

Returned(fn) == pc = "returned" /\ x.fn = fn

\* Some decorative pattern occurs in the lowered string.
Decorative(s) == \E p \in skip_patterns : Contains(Lower(s), p)

\* C11: is_content_image returns False exactly when the URL or the alt text
\* contains a decorative pattern, whatever the alt text's length and the
\* large-size markers, and True in every other case.
C11_DecorativeOnly ==
    Returned("is_content_image")
        => x.out = Some(~(Decorative(x.a) \/ Decorative(x.b)))

\* A decorative URL that also has a large-size marker and a long alt text
\* was classified as not content.
C11_Witness ==
    /\ Returned("is_content_image")
    /\ Contains(x.a, <<"avatar">>) /\ Contains(x.a, <<"w", "_", "1456">>)
    /\ x.b = <<"sunset">>
    /\ x.out = Some(FALSE)

\* C12: two non-CDN URLs that differ only in the presence, value or position
\* of the w=, h=, c_limit and c_fill query parameters have the same key.
C12_KeyStable ==
    Returned("extract_base_image_url") => x.out[1][1] = x.out[1][2]

\* C13: clean_text is idempotent, an entity of the table on its own becomes
\* its literal character, and the empty text gives the empty text.
C13_Idempotent ==
    Returned("clean_text")
        => /\ clean_text(x.out[1]) = x.out[1]
           /\ x.a = <<>> => x.out[1] = <<>>
           /\ \A k \in 1..Len(Entities) :
                  x.a = <<"x", "&", Entities[k][1]>> => x.out[1] = <<"x", Entities[k][2]>>

\* The segments of the markdown text given to clean_markdown_content.
SegmentsOf(kind) == {x.b[j] : j \in {m \in 1..Len(x.b) : x.b[m].kind = kind}}

\* C14: every fenced code block of the input comes out as the line
\* CODE BLOCK: followed by its body, without fence or language tag; the
\* python fence around print(1) gives exactly "CODE BLOCK:\nprint(1)".
C14_FenceRewritten ==
    Returned("clean_markdown_content")
        => /\ \A seg \in SegmentsOf("fence") :
                  Contains(x.out[1], <<"CODE BLOCK:", NL>> \o seg.body)
           /\ SegmentsOf("fence") # {} => ~Contains(x.out[1], <<BT>>)
           /\ x.a = <<BT, BT, BT, "python", NL, "print", "(", "1", ")", NL, BT, BT, BT>>
                  => x.out[1] = <<"CODE BLOCK:", NL, "print", "(", "1", ")">>

\* C15: every image ![alt](url) of the input is in the output with its alt
\* text and URL, and every link [text](url) is reduced to its text.
C15_ImagesPreserved ==
    Returned("clean_markdown_content")
        => /\ \A seg \in SegmentsOf("image") : Contains(x.out[1], Render(seg))
           /\ \A seg \in SegmentsOf("link") :
                  Contains(x.out[1], seg.body) /\ ~Contains(x.out[1], seg.url)

\* The kind of a block of the story, and the kinds of the blocks a step
\* appended (spacers left out).
KindOf(b) ==
    CASE b.k = "Image" -> "image"
      [] b.k = "Paragraph" /\ b.style = "image" -> "image"
      [] b.k = "Paragraph" /\ b.style \in {"section", "subtitle"} -> "heading"
      [] b.k = "Paragraph" /\ b.style = "content" -> "paragraph"
      [] b.k = "Paragraph" -> b.style
      [] OTHER -> "spacer"
AppendedKinds ==
    {KindOf(story'[p]) : p \in (Len(story) + 1)..Len(story')} \ {"spacer"}

\* The loop body handles the line at li.
HandlesLine == pc = "lines" /\ li <= Len(lines) /\ li' = li + 1
CurrentLine == Strip(lines[li])

\* The rules of the line classifier, each on its own.
IsMarkerLine(line) == StartsWith(line, <<"CODE BLOCK:">>)
IsMarkdownHeading(line) ==
    HashCount(line) \in 1..6 /\ HashCount(line) < Len(line) /\ IsSpace(line[HashCount(line) + 1])
IsQPrefix(line) == Len(line) >= 2 /\ LowerTok(line[1]) = "q" /\ line[2] = ":"
IsUpperLine(line) == IsUpper(line) /\ StrLen(line) > 3 /\ StrLen(line) < 100
IsQuoteLine(line) == StartsWith(line, <<">">>)
IsImageShaped(line) == StartsWith(line, <<"!", "[">>) /\ Contains(line, <<"]", "(">>)
IsImageSyntax(line) == MarkdownImage(line) # None

\* The kinds of block the first matching rule of the list produces for a
\* line; stored tells whether the rule of the stored images is in the list.
RuleKinds(line, stored) ==
    IF IsMarkerLine(line) THEN {}
    ELSE IF IsMarkdownHeading(line) \/ IsQPrefix(line) \/ IsUpperLine(line) \/ TitleShape(line)
         THEN {"heading"}
    ELSE IF IsQuoteLine(line) THEN {"quote"}
    ELSE IF is_list_item(line) THEN {"list"}
    ELSE IF stored /\ StoredImageDue(line, current_article_images, image_index) THEN {"image"}
    ELSE IF stored /\ IsImageShaped(line) THEN (IF IsImageSyntax(line) THEN {"image"} ELSE {})
    ELSE IF ~stored /\ IsImageSyntax(line) THEN {"image"}
    ELSE {"paragraph"}

C17_HeadingBlock ==
    Returned("add_heading_to_story")
        => LET blocks == SelectSeq(x.out[1], LAMBDA b : b.k # "Spacer") IN
           /\ Len(blocks) = 1
           /\ blocks[1] = Paragraph(x.b.text, IF x.b.level = 2 THEN "subtitle" ELSE "section")

\* "## Section Title" gave the subtitle-styled heading "Section Title".
C17_Witness ==
    /\ Returned("add_heading_to_story")
    /\ x.a = <<"#", "#", SP, "Section", SP, "Title">>
    /\ x.out[1][1] = Paragraph(<<"Section", SP, "Title">>, "subtitle")

\* The block run of the only article once add_formatted_content_to_story
\* has returned.
Formatted == pc = "article_end" /\ Len(starts) = 1
\* The lines after the marker at index m up to the next blank line, marker
\* or end of the text.
RECURSIVE BodyAfter(_)
BodyAfter(m) ==
    IF m >= Len(lines) \/ Strip(lines[m + 1]) = <<>> \/ IsMarkerLine(Strip(lines[m + 1]))
    THEN <<>>
    ELSE <<Strip(lines[m + 1])>> \o BodyAfter(m + 1)
Markers == {m \in 1..Len(lines) : IsMarkerLine(Strip(lines[m])) /\ BodyAfter(m) # <<>>}
CodeBlocks == SelectSeq(RunOf(1), LAMBDA b : b.k = "Paragraph" /\ b.style = "code")

\* C18: the lines that follow a CODE BLOCK: marker are held back and come
\* out as one code block, also when the text ends with them: the run has
\* one code block per marker that has a body, made of the body's lines, and
\* no body line is a block of another kind.
C18_CodeBlockBuffered ==
    Formatted
        => /\ Len(CodeBlocks) = Cardinality(Markers)
           /\ \A m \in Markers :
                  \E p \in 1..Len(CodeBlocks) :
                      CodeBlocks[p] = add_code_block_to_story(BodyAfter(m))[1]

\* The positions in the run of article 1 of the blocks that show the stored
\* image j: the image of its URL, or the placeholder of its alt text.
ShownAt(j) ==
    LET img == current_article_images[1][j] IN
    {p \in 1..Len(RunOf(1)) :
        \/ IsImage(RunOf(1)[p]) /\ RunOf(1)[p].text = img.src
        \/ RunOf(1)[p] = ImagePlaceholder(img.alt)}

\* C19: every image stored for the article is in the article's run exactly
\* once, as an image or as its placeholder, and the stored images come in
\* the order they were found.
C19_StoredImagesOnce ==
    Formatted
        => /\ \A j \in 1..Len(current_article_images[1]) : Cardinality(ShownAt(j)) = 1
           /\ \A j, m \in 1..Len(current_article_images[1]) :
                  j < m => \A p \in ShownAt(j) : \A q \in ShownAt(m) : p < q

\* The paragraphs of the text extract_article_content returned, what is
\* left of an image or a link not counted.
ReturnedParagraphs ==
    LET ps == SplitFrom(content[1], 1, <<>>) IN
    {q \in {Strip(ps[j]) : j \in 1..Len(ps)} : q # <<>> /\ q[1] \notin {"!", "["}}

\* C20: the text extract_article_content returns has no paragraph of fewer
\* than 20 characters, whichever element the content was taken from.
C20_NoShortParagraph ==
    pc = "x_done" /\ content # None
        => \A q \in ReturnedParagraphs : StrLen(q) >= ParagraphMin

\* C21: when the download of a CDN image fails, the alternate URLs are tried
\* in order and the first that succeeds gives the image, once and without
\* placeholder; the placeholder comes only when all alternates failed, and
\* at once for an image of another host.
C21_AlternatesTried ==
    Returned("add_image_to_story")
        => LET good == {j \in 1..3 : Usable(x.b.alts[j])}
               j1 == CHOOSE a \in good : \A b \in good : a <= b
           IN x.out[1] =
                 IF Usable(x.b.first)
                 THEN ImageBlocks(x.a, ImageSize(x.b.first.w, x.b.first.h))
                 ELSE IF OnSubstackCdn(x.a) /\ good # {}
                 THEN ImageBlocks(x.a, ImageSize(x.b.alts[j1].w, x.b.alts[j1].h))
                 ELSE <<ImagePlaceholder(x.b.alt)>>

(***************************************************************************)
(* The run on a feed of one entry that carries any of the four attributes. *)
(***************************************************************************)

InitFeeds ==
    /\ pc = "main"
    /\ args \in [mode : Modes, max_articles : Caps]
    /\ net_entries \in {<<EntryWith(has)>> : has \in SUBSET EntryAttrs}
    /\ Fresh
    /\ x = None

SpecFeeds == InitFeeds /\ [][Next]_vars

\* The blocks an article's run opens with when every metadata block stands
\* for a field the descriptor holds.
HeaderOfPresent(article) ==
    << Paragraph(article.title, "subtitle"), Spacer(1, 8) >>
    \o (IF article.author # <<>> THEN <<Paragraph(<<"By: ">> \o article.author, "meta")>> ELSE <<>>)
    \o (IF article.published # <<>>
        THEN <<Paragraph(<<"Published: ">> \o article.published, "meta")>> ELSE <<>>)
    \o (IF article.link # <<>> THEN <<Paragraph(<<"URL: ">> \o article.link, "meta")>> ELSE <<>>)
    \o << Spacer(1, 12) >>

\* C22: the run of every article opens with the subtitle-styled title, then
\* one metadata block for each of author, published date and link that the
\* descriptor holds, and none for a field that is empty.
C22_HeaderFields ==
    \A j \in 1..Len(starts) :
        LET h == HeaderOfPresent(articles[j]) IN
        Len(RunOf(j)) >= Len(h) /\ SubSeq(RunOf(j), 1, Len(h)) = h

\* C23: once the build has raised inside create_pdf the error is printed,
\* the exception leaves main and the process ends with status 1; create_pdf
\* has not returned a value and no message of success is printed.
C23_BuildFailureExits ==
    "Error creating PDF" \in out
        => /\ pc = "exit"
           /\ exit_code = Some(1)
           /\ "Traceback" \in out
           /\ success = None
           /\ out \cap {"PDF successfully created", "PDF created successfully"} = {}

\* The build of a story with an article in it failed.
C23_Witness ==
    "Error creating PDF" \in out /\ Len(starts) >= 1 /\ i = Len(articles)

\* The descriptor of an entry: its fields, a missing one replaced by its default.
DescriptorOf(entry) ==
    [title |-> IF "title" \in entry.has THEN entry.title ELSE <<"No title">>,
     link |-> IF "link" \in entry.has THEN entry.link ELSE <<>>,
     published |-> IF "published" \in entry.has THEN entry.published ELSE <<>>,
     author |-> IF "author" \in entry.has THEN entry.author ELSE <<"Unknown">>]

\* C24: for a feed that passes validation fetch_rss_feed returns one
\* descriptor per entry, in the order of the feed, a missing title, link,
\* date or author replaced by its default.
C24_OneDescriptorPerEntry ==
    Returned("fetch_rss_feed") /\ x.out[1].valid
        => /\ Len(x.out[1].articles) = Len(x.b.entries)
           /\ \A j \in 1..Len(x.b.entries) : x.out[1].articles[j] = DescriptorOf(x.b.entries[j])

\* A feed of two entries, the second without any attribute, was fetched.
C24_Witness ==
    /\ Returned("fetch_rss_feed")
    /\ Len(x.b.entries) = 2 /\ x.b.entries[1].has = EntryAttrs /\ x.b.entries[2].has = {}
    /\ x.out[1].valid /\ Len(x.out[1].articles) = 2
    /\ x.out[1].articles[1].title = <<"Title", "1">>
    /\ x.out[1].articles[2].title = <<"No title">>

\* The network is taken to answer the requests of one run alike, and
\* feedparser and datetime not to raise on a feed that was fetched.
\* C25: the feed is invalid exactly when it cannot be reached or has no
\* entries; content type, bozo flag, missing titles or links and the lack
\* of recent entries only print diagnostics, and fetch_rss_feed returns the
\* articles then and the empty list for an invalid feed.
C25_InvalidOnlyIfUnusable ==
    Returned("fetch_rss_feed")
        => /\ x.out[1].valid = (x.b.resp.reachable /\ x.b.entries # <<>>)
           /\ x.out[1].valid = validate_rss_feed(x.b.resp.reachable, x.b.entries)
           /\ x.out[1].valid => Len(x.out[1].articles) = Len(x.b.entries)
           /\ ~x.out[1].valid => x.out[1].articles = <<>>
           /\ x.b.resp.reachable /\ ~x.b.resp.xml => "content type may not be RSS/Atom" \in x.out[1].printed
           /\ x.b.resp.reachable /\ x.b.resp.bozo => "Feed may be malformed" \in x.out[1].printed
           /\ x.out[1].valid /\ ~x.b.resp.recent => "No recent entries" \in x.out[1].printed
           /\ x.out[1].valid /\ (\E j \in 1..Len(x.b.entries) : "link" \notin x.b.entries[j].has)
                  => "entries missing links" \in x.out[1].printed
           /\ x.out[1].valid /\ (\E j \in 1..Len(x.b.entries) : "title" \notin x.b.entries[j].has)
                  => "entries missing titles" \in x.out[1].printed

\* A feed with every warning was valid and its articles were returned.
C25_Witness ==
    /\ Returned("fetch_rss_feed")
    /\ ~x.b.resp.xml /\ x.b.resp.bozo /\ ~x.b.resp.recent /\ Len(x.b.entries) = 1 /\ x.b.entries[1].has = {}
    /\ x.out[1].valid /\ Len(x.out[1].articles) = 1


RECURSIVE UrlsOn(_)
\* The URLs a page names: the src of its images and the href of its links.
UrlsOn(node) ==
    ({node.src, node.href} \ {<<>>}) \cup UNION {UrlsOn(node.kids[j]) : j \in 1..Len(node.kids)}

\* What extract_article_content returns for each page an article can have.
PageContents == [page \in ArticlePages |-> ExtractReturn(extract_article_content(page))]

\* The URLs of the Image blocks of a run of blocks.
ImageUrlsIn(run) == {run[p].text : p \in {q \in 1..Len(run) : IsImage(run[q])}}

\* C26: the images in an article's run are images of that article's own
\* page: whatever page gave the content of article i, every Image block of
\* the run of article i shows a URL of that page, and the run holds no
\* Image block when the extraction failed or found nothing, whatever the
\* articles before it stored.
C26_OwnImagesOnly ==
    (pc \in {"content_test", "lines", "remaining", "article_end"} /\ i >= 1) =>
        IF ~Truthy(content) THEN ImageUrlsIn(RunOf(i)) = {}
        ELSE \A page \in ArticlePages :
                 PageContents[page] = content => ImageUrlsIn(RunOf(i)) \subseteq UrlsOn(page)

\* The first article showed an image, the second one's page has none, and
\* the second run is complete.
C26_Witness ==
    /\ pc = "article_end" /\ i = 2
    /\ ImageUrlsIn(RunOf(1)) # {}
    /\ current_article_images = Some(<<>>)
    /\ content = PageContents[PagePlain]
    /\ ImageUrlsIn(RunOf(2)) = {}


\* C27: whenever extract_article_content returns content, the text
\* returned and the images stored come from one element, the element whose
\* text was measured and kept as the content, whether or not a selector
\* passed the threshold.
C27_OneElement ==
    (pc = "x_done" /\ x.locals # None /\ content # None) =>
        LET l == x.locals[1] IN
        /\ l.content_elem # None
        /\ LET elem == NodeAt(l.soup, l.content_elem[1]) IN
           /\ l.content = Some(get_text(elem))
           /\ content = Some(clean_markdown_content(HtmlToMarkdown(elem)))
           /\ current_article_images = Some(CollectImages(FindImgs(elem), 1, {}))


\* A line for the paragraph rule: not blank, not held back as code, and
\* neither a marker, a heading, a quote, a list item nor an image line.
IsParagraphLine(line) ==
    /\ line # <<>> /\ current_code_block = <<>>
    /\ ~IsMarkerLine(line)
    /\ ~(IsMarkdownHeading(line) \/ IsQPrefix(line) \/ IsUpperLine(line) \/ TitleShape(line))
    /\ ~IsQuoteLine(line) /\ ~is_list_item(line) /\ ~IsImageShaped(line)

\* C28: a line for the paragraph rule is never dropped: the loop body
\* appends a content paragraph with the text of the line, also when it
\* shows a stored image at that line.
C28_ParagraphKept ==
    [][HandlesLine /\ IsParagraphLine(CurrentLine)
          => \E p \in (Len(story) + 1)..Len(story') :
                 story'[p] = Paragraph(CurrentLine, "content")]_vars


\* C29: with a cap given on the command line, 0 included, the story never
\* holds more article sections than the cap.
C29_CapRespected ==
    args.max_articles # None => Len(starts) <= args.max_articles[1]


\* C30: a downloaded image with positive pixel dimensions is emitted, not
\* replaced by the placeholder, with a width of at most 400 and a height of
\* at least 50.
C30_SizeWithinPage ==
    (Returned("add_image_to_story") /\ x.b.first.ok /\ x.b.first.w > 0 /\ x.b.first.h > 0)
        => /\ \A p \in 1..Len(x.out[1]) : ~IsImageFailure(x.out[1][p])
           /\ \E p \in 1..Len(x.out[1]) :
                  /\ IsImage(x.out[1][p])
                  /\ x.out[1][p].w <= page_width
                  /\ x.out[1][p].h >= MinImageHeight

====
